---- MODULE Spec2Model ----
(***************************************************************************)
(* A model of hnsd's resource translation core (src/src/resource.c):       *)
(* the record decoder, the pointer codec (IP <-> "_<base32hex>" label),    *)
(* the section builders and the to_dns dispatcher.                         *)
(*                                                                         *)
(* Conventions.                                                            *)
(*   - a byte is a number in 0..255, a byte string a sequence of bytes;    *)
(*   - a C string is the sequence of its bytes without the final NUL, so   *)
(*     "" is << >>, "." is <<46>> and "a.b." is <<97, 46, 98, 46>>;        *)
(***************************************************************************)
EXTENDS Integers, Sequences, FiniteSets, TLC

VARIABLES
  op,         \* the operation that ran last, "idle" between two operations
  arg,        \* its arguments
  ret         \* what it returned (and what it left behind on the heap)

vars == <<op, arg, ret>>

\* The null pointer, and what an output parameter nobody wrote holds.
NULL == [null |-> TRUE]

(***************************************************************************)
(* Bounds of the model.                                                    *)
(***************************************************************************)
\* Most record encodings in an input of decode.
MaxFrags == 2
\* Longest string handed to hsk_resource_str_read.
MaxText == 2
\* Most records in a resource handed to to_dns.
MaxRecs == 2
\* Longest base32 tail of a label handed to is_ptr (characters after "_").
MaxB32 == 2
\* Largest number of allocations the allocator grants before it is exhausted.
MaxFuel == 2

(***************************************************************************)
(* Small helpers.                                                          *)
(***************************************************************************)
Byte == 0..255

Rep(x, n) == [i \in 1..n |-> x]

Min(a, b) == IF a < b THEN a ELSE b

\* The concatenation of F(1), ..., F(n).
Concat(n, F(_)) ==
  LET c[i \in 0..n] == IF i = 0 THEN << >> ELSE c[i - 1] \o F(i)
  IN c[n]

\* All sequences over S of length at most n.
SeqsUpTo(S, n) == UNION {[1..k -> S] : k \in 0..n}

Pow2(n) == LET p[i \in 0..n] == IF i = 0 THEN 1 ELSE 2 * p[i - 1] IN p[n]

(***************************************************************************)
(* base32.c (not among the sources): base32-hex, lower case, unpadded.     *)
(***************************************************************************)
\* The character of a 5-bit digit: '0'..'9', then 'a'..'v'.
B32Char(k) == IF k < 10 THEN 48 + k ELSE 97 + (k - 10)

IsB32(ch) == (48 <= ch /\ ch <= 57) \/ (97 <= ch /\ ch <= 118)

B32Value(ch) == IF ch <= 57 THEN ch - 48 ELSE ch - 97 + 10

\* The bits of a byte string, most significant first.
BitsOf(bytes) ==
  [k \in 1..(8 * Len(bytes)) |->
     (bytes[((k - 1) \div 8) + 1] \div Pow2(7 - ((k - 1) % 8))) % 2]

\* The number whose binary digits are bits[from..from+n-1]; bits past the
\* end read as zero.
BitsValue(bits, from, n) ==
  LET v[i \in 0..n] ==
        IF i = 0 THEN 0
        ELSE 2 * v[i - 1]
             + (IF from + i - 1 <= Len(bits) THEN bits[from + i - 1] ELSE 0)
  IN v[n]

hsk_base32_encode_hex(data) ==
  LET bits == BitsOf(data)
      n == (Len(bits) + 4) \div 5
  IN [k \in 1..n |-> B32Char(BitsValue(bits, 5 * (k - 1) + 1, 5))]

\* 0 for a string that is not base32-hex.
hsk_base32_decode_hex_size(str) ==
  IF \A k \in 1..Len(str) : IsB32(str[k]) THEN (Len(str) * 5) \div 8 ELSE 0

hsk_base32_decode_hex(str) ==
  LET bits == Concat(Len(str), LAMBDA k :
                [j \in 1..5 |-> (B32Value(str[k]) \div Pow2(5 - j)) % 2])
  IN [k \in 1..((Len(str) * 5) \div 8) |-> BitsValue(bits, 8 * (k - 1) + 1, 8)]

(***************************************************************************)
(* The pointer codec: ip_size, ip_write, ip_read, ip_to_b32, b32_to_ip,    *)
(* pointer_to_ip, hsk_resource_is_ptr.                                     *)
(***************************************************************************)
HSK_DNS_A == "A"
HSK_DNS_AAAA == "AAAA"

\* The loop of ip_size over the bytes ip[i..15], from the loop state it is in.
RECURSIVE ip_size_loop(_, _, _, _, _, _)
ip_size_loop(ip, i, out, last, start, len) ==
  LET longer == ~out /\ i - last > len
      start2 == IF longer THEN last ELSE start
      len2 == IF longer THEN i - last ELSE len
  IN IF i = 16
     THEN [start |-> start2, len |-> len2]
     ELSE IF out = (ip[i + 1] = 0)
          THEN ip_size_loop(ip, i + 1, ~out, i, start2, len2)
          ELSE ip_size_loop(ip, i + 1, out, last, start, len)

\* ip_size without the reset of a 16-byte run.
ip_size_keeps_sixteen(ip) ==
  LET r == ip_size_loop(ip, 0, TRUE, 0, 0, 0)
  IN [start |-> r.start, len |-> r.len]

\* The longest run of zero bytes of a 16-byte address: [start, len].
ip_size(ip) ==
  LET r == ip_size_loop(ip, 0, TRUE, 0, 0, 0)
  IN [start |-> r.start, len |-> IF r.len = 16 THEN 0 ELSE r.len]

ip_write(ip) ==
  LET sz == ip_size(ip)
      left == 16 - (sz.start + sz.len)
  IN << ((sz.start * 16) % 256) + sz.len >>
     \o SubSeq(ip, 1, sz.start)
     \o SubSeq(ip, sz.start + sz.len + 1, sz.start + sz.len + left)

\* data is the 17-byte buffer ip_read is handed; want is FALSE for ip = NULL.
ip_read(data, want) ==
  LET field == data[1]
      start == field \div 16
      len == field % 16
      left == 16 - (start + len)
  IN IF start + len > 16
     THEN [ok |-> FALSE, ip |-> NULL]
     ELSE [ok |-> TRUE,
           ip |-> IF want
                  THEN SubSeq(data, 2, 1 + start) \o Rep(0, len)
                       \o SubSeq(data, 2 + start, 1 + start + left)
                  ELSE NULL]

MappedPrefix == Rep(0, 10) \o <<255, 255>>

\* mem is the memory at the pointer ip_to_b32 is handed, 16 bytes of it: the
\* function tells the family by sizeof(ip), the size of the pointer, so a
\* 64-bit build copies 16 bytes whatever it points to and a 32-bit build
\* always maps 4.
ip_to_b32(mem, ws) ==
  LET family == ws
      mapped == IF family = 4
                THEN MappedPrefix \o SubSeq(mem, 1, 4)
                ELSE SubSeq(mem, 1, 16)
  IN hsk_base32_encode_hex(ip_write(mapped))

\* junk fills the part of the 17-byte stack buffer the decoder does not write.
b32_to_ip(str, want, junk) ==
  LET size == hsk_base32_decode_hex_size(str)
  IN IF size = 0 \/ size > 17
     THEN [ok |-> FALSE, ip |-> NULL, family |-> "NONE"]
     ELSE LET data == hsk_base32_decode_hex(str) \o Rep(junk, 17 - size)
              r == ip_read(data, want)
          IN IF ~r.ok THEN [ok |-> FALSE, ip |-> NULL, family |-> "NONE"]
             ELSE IF ~want THEN [ok |-> TRUE, ip |-> NULL, family |-> "NONE"]
             ELSE IF SubSeq(r.ip, 1, 12) = MappedPrefix
                  THEN [ok |-> TRUE, ip |-> SubSeq(r.ip, 13, 16),
                        family |-> HSK_DNS_A]
                  ELSE [ok |-> TRUE, ip |-> r.ip, family |-> HSK_DNS_AAAA]

DOT == 46
UNDERSCORE == 95

\* dns.c (not among the sources): the labels of a name, "a.b." -> <<"a", "b">>.
RECURSIVE SplitLabels(_, _, _)
SplitLabels(name, i, cur) ==
  IF i > Len(name) THEN (IF cur = << >> THEN << >> ELSE <<cur>>)
  ELSE IF name[i] = DOT
       THEN (IF cur = << >> THEN << >> ELSE <<cur>>)
            \o SplitLabels(name, i + 1, << >>)
       ELSE SplitLabels(name, i + 1, Append(cur, name[i]))

Labels(name) == SplitLabels(name, 1, << >>)

hsk_dns_name_is_fqdn(name) == Len(name) > 0 /\ name[Len(name)] = DOT

hsk_dns_label_count(name) == Len(Labels(name))

\* hsk_dns_label_get(name, index, label): the label, empty when there is none;
\* index -1 is the last label.
hsk_dns_label_get(name, index) ==
  LET ls == Labels(name)
      k == IF index < 0 THEN Len(ls) + 1 + index ELSE index + 1
  IN IF k >= 1 /\ k <= Len(ls) THEN ls[k] ELSE << >>

\* hsk_dns_label_from(name, index, out): the name from that label on.
hsk_dns_label_from(name, index) ==
  LET ls == Labels(name)
      k == IF index < 0 THEN Len(ls) + 1 + index ELSE index + 1
  IN IF k >= 1 /\ k <= Len(ls)
     THEN Concat(Len(ls) - k + 1, LAMBDA j : ls[k + j - 1] \o <<DOT>>)
     ELSE << >>

pointer_to_ip(name, want, junk) ==
  LET label == hsk_dns_label_get(name, 0)
      len == Len(label)
  IN IF len < 2 \/ len > 29 \/ label[1] # UNDERSCORE
     THEN [ok |-> FALSE, ip |-> NULL, family |-> "NONE"]
     ELSE b32_to_ip(SubSeq(label, 2, len), want, junk)

hsk_resource_is_ptr(name) == pointer_to_ip(name, FALSE, 0).ok

(***************************************************************************)
(* Record type tags.  The tags the header gives are the header's; the      *)
(* header that defines HSK_GLUE4, HSK_GLUE6, HSK_SYNTH4 and HSK_SYNTH6 is   *)
(* not among the sources, so these four are bytes the header leaves free.  *)
(***************************************************************************)
HSK_INET4 == 1
HSK_INET6 == 2
HSK_ONION == 3
HSK_NAME == 5
HSK_GLUE == 6
HSK_CANONICAL == 7
HSK_DELEGATE == 8
HSK_NS == 9
HSK_SERVICE == 10
HSK_URI == 11
HSK_EMAIL == 12
HSK_TEXT == 13
HSK_LOCATION == 14
HSK_MAGNET == 15
HSK_DS == 16
HSK_SSH == 18
HSK_ADDR == 20
HSK_GLUE4 == 21
HSK_GLUE6 == 22
HSK_SYNTH4 == 23
HSK_SYNTH6 == 24

\* The tags from HSK_NS to HSK_SYNTH6, the range hsk_resource_has_ns tests.
NsRange == {HSK_NS, HSK_GLUE4, HSK_GLUE6, HSK_SYNTH4, HSK_SYNTH6}

\* records[] of hsk_resource_t has this many slots.
RecordSlots == 255

\* HSK_DEFAULT_TTL (not among the sources): the tree interval in seconds.
HSK_DEFAULT_TTL == 21600

(***************************************************************************)
(* bio.h (not among the sources): the cursor is the offset pos into data,  *)
(* *data_len is Len(data) - pos.  A read that fails does not advance.      *)
(***************************************************************************)
Avail(data, pos) == Len(data) - pos

read_u8(data, pos) ==
  IF Avail(data, pos) < 1 THEN [ok |-> FALSE, v |-> 0, pos |-> pos]
  ELSE [ok |-> TRUE, v |-> data[pos + 1], pos |-> pos + 1]

read_u16be(data, pos) ==
  IF Avail(data, pos) < 2 THEN [ok |-> FALSE, v |-> 0, pos |-> pos]
  ELSE [ok |-> TRUE, v |-> data[pos + 1] * 256 + data[pos + 2], pos |-> pos + 2]

\* read_bytes and slice_bytes: n bytes, copied or referenced.
read_bytes(data, pos, n) ==
  IF Avail(data, pos) < n THEN [ok |-> FALSE, v |-> << >>, pos |-> pos]
  ELSE [ok |-> TRUE, v |-> SubSeq(data, pos + 1, pos + n), pos |-> pos + n]

(***************************************************************************)
(* dns.c (not among the sources): a wire-format name at offset off of msg, *)
(* compression pointers resolved against msg, as a C string.               *)
(***************************************************************************)
\* Pointers followed before the name is given up as a loop.
PointerHops == 10

HSK_DNS_MAX_NAME == 255

\* A byte of a label as the C string holds it: NUL and '.' are replaced.
LabelByte(b) == IF b = 0 THEN 255 ELSE IF b = DOT THEN 254 ELSE b

\* acc is the name read so far, end the offset after the name once a pointer
\* was followed (-1 before).
RECURSIVE hsk_dns_name_parse(_, _, _, _, _)
hsk_dns_name_parse(msg, off, hops, acc, end) ==
  LET fail == [ok |-> FALSE, name |-> << >>, pos |-> 0]
      c == msg[off + 1]
      after(n) == IF end < 0 THEN off + n ELSE end
  IN IF off >= Len(msg) THEN fail
     ELSE IF c = 0
          THEN [ok |-> TRUE,
                name |-> IF acc = << >> THEN <<DOT>> ELSE acc,
                pos |-> after(1)]
     ELSE IF c \div 64 = 3
          THEN IF off + 1 >= Len(msg) \/ hops >= PointerHops THEN fail
               ELSE hsk_dns_name_parse(msg, (c % 64) * 256 + msg[off + 2],
                                       hops + 1, acc, after(2))
     ELSE IF c \div 64 # 0 THEN fail
     ELSE IF off + 1 + c > Len(msg) THEN fail
     ELSE LET label == [k \in 1..c |-> LabelByte(msg[off + 1 + k])]
              acc2 == acc \o label \o <<DOT>>
          IN IF Len(acc2) > HSK_DNS_MAX_NAME THEN fail
             ELSE hsk_dns_name_parse(msg, off + 1 + c, hops, acc2, end)

\* dmp is the whole resource, data itself.
hsk_dns_name_read(data, pos) ==
  LET r == hsk_dns_name_parse(data, pos, 0, << >>, -1)
  IN IF r.ok THEN r ELSE [ok |-> FALSE, name |-> << >>, pos |-> pos]

(***************************************************************************)
(* Records and their readers.  A reader returns [ok, rec, pos]: whether it *)
(* succeeded, the record as it left it, and the cursor as it left it.      *)
(***************************************************************************)
Zero4 == Rep(0, 4)
Zero16 == Rep(0, 16)

\* A target no reader filled in.
ZeroTarget == [type |-> 0, name |-> << >>, inet4 |-> Zero4, inet6 |-> Zero16]

\* hsk_record_alloc and hsk_record_init: the record of that type, zeroed;
\* NULL for a type the decoder does not know.
hsk_record_alloc(type) ==
  IF type = HSK_DS
  THEN [type |-> type, key_tag |-> 0, algorithm |-> 0, digest_type |-> 0,
        digest_len |-> 0, digest |-> << >>]
  ELSE IF type \in {HSK_NS, HSK_GLUE4, HSK_GLUE6, HSK_SYNTH4, HSK_SYNTH6}
  THEN [type |-> type, name |-> << >>, inet4 |-> Zero4, inet6 |-> Zero16,
        target |-> ZeroTarget]
  ELSE IF type = HSK_TEXT
  THEN [type |-> type, text |-> << >>]
  ELSE NULL

hsk_ds_record_read(data, pos, rec) ==
  IF Avail(data, pos) < 5 THEN [ok |-> FALSE, rec |-> rec, pos |-> pos]
  ELSE LET key_tag == read_u16be(data, pos)
           algorithm == read_u8(data, key_tag.pos)
           digest_type == read_u8(data, algorithm.pos)
           size == read_u8(data, digest_type.pos)
           rec2 == [rec EXCEPT !.key_tag = key_tag.v,
                               !.algorithm = algorithm.v,
                               !.digest_type = digest_type.v]
           digest == read_bytes(data, size.pos, size.v)
       IN IF size.v > 64 THEN [ok |-> FALSE, rec |-> rec2, pos |-> size.pos]
          ELSE IF ~digest.ok
               THEN [ok |-> FALSE, rec |-> rec2, pos |-> size.pos]
          ELSE [ok |-> TRUE,
                rec |-> [rec2 EXCEPT !.digest = digest.v,
                                     !.digest_len = size.v],
                pos |-> digest.pos]

hsk_ns_record_read(data, pos, rec) ==
  LET name == hsk_dns_name_read(data, pos)
  IN [ok |-> name.ok,
      rec |-> IF name.ok THEN [rec EXCEPT !.name = name.name] ELSE rec,
      pos |-> name.pos]

hsk_glue4_record_read(data, pos, rec) ==
  LET name == hsk_dns_name_read(data, pos)
      inet4 == read_bytes(data, name.pos, 4)
      rec2 == [rec EXCEPT !.name = name.name]
  IN IF ~name.ok THEN [ok |-> FALSE, rec |-> rec, pos |-> pos]
     ELSE IF ~inet4.ok THEN [ok |-> FALSE, rec |-> rec2, pos |-> name.pos]
     ELSE [ok |-> TRUE, rec |-> [rec2 EXCEPT !.inet4 = inet4.v],
           pos |-> inet4.pos]

hsk_glue6_record_read(data, pos, rec) ==
  LET name == hsk_dns_name_read(data, pos)
      inet6 == read_bytes(data, name.pos, 16)
      rec2 == [rec EXCEPT !.name = name.name]
  IN IF ~name.ok THEN [ok |-> FALSE, rec |-> rec, pos |-> pos]
     ELSE IF ~inet6.ok THEN [ok |-> FALSE, rec |-> rec2, pos |-> name.pos]
     ELSE [ok |-> TRUE, rec |-> [rec2 EXCEPT !.inet6 = inet6.v],
           pos |-> inet6.pos]

hsk_synth4_record_read(data, pos, rec) ==
  LET inet4 == read_bytes(data, pos, 4)
  IN [ok |-> inet4.ok,
      rec |-> IF inet4.ok THEN [rec EXCEPT !.inet4 = inet4.v] ELSE rec,
      pos |-> inet4.pos]

hsk_synth6_record_read(data, pos, rec) ==
  LET inet6 == read_bytes(data, pos, 16)
  IN [ok |-> inet6.ok,
      rec |-> IF inet6.ok THEN [rec EXCEPT !.inet6 = inet6.v] ELSE rec,
      pos |-> inet6.pos]

\* The bytes hsk_resource_str_read lets through.
StrCharOk(ch) ==
  /\ ch # 127
  /\ ~(ch < 32 /\ ch # 9 /\ ch # 10 /\ ch # 13)

\* [ok, str, pos]: a size byte, then that many bytes, each checked.
hsk_resource_str_read(data, pos, limit) ==
  LET size == read_u8(data, pos)
      chunk == read_bytes(data, size.pos, size.v)
      real_size == size.v
  IN IF ~size.ok THEN [ok |-> FALSE, str |-> << >>, pos |-> pos]
     ELSE IF ~chunk.ok THEN [ok |-> FALSE, str |-> << >>, pos |-> size.pos]
     ELSE IF \E i \in 1..size.v : ~StrCharOk(chunk.v[i])
          THEN [ok |-> FALSE, str |-> << >>, pos |-> chunk.pos]
     ELSE IF real_size > limit
          THEN [ok |-> FALSE, str |-> << >>, pos |-> chunk.pos]
     ELSE [ok |-> TRUE, str |-> chunk.v, pos |-> chunk.pos]

hsk_txt_record_read(data, pos, rec) ==
  LET text == hsk_resource_str_read(data, pos, 255)
  IN [ok |-> text.ok,
      rec |-> IF text.ok THEN [rec EXCEPT !.text = text.str] ELSE rec,
      pos |-> text.pos]

\* The reader of the record's type.
ReadBody(data, pos, type, r) ==
  IF type = HSK_DS THEN hsk_ds_record_read(data, pos, r)
  ELSE IF type = HSK_NS THEN hsk_ns_record_read(data, pos, r)
  ELSE IF type = HSK_GLUE4 THEN hsk_glue4_record_read(data, pos, r)
  ELSE IF type = HSK_GLUE6 THEN hsk_glue6_record_read(data, pos, r)
  ELSE IF type = HSK_SYNTH4 THEN hsk_synth4_record_read(data, pos, r)
  ELSE IF type = HSK_SYNTH6 THEN hsk_synth6_record_read(data, pos, r)
  ELSE hsk_txt_record_read(data, pos, r)

\* [ok, rec, pos, result]: ok is what hsk_record_read returns, rec what it
\* stores through res (NULL: nothing, and nothing stays allocated), result
\* what the type's reader returned.  The reader's result is not looked at:
\* the record is stored and true returned whatever it was.
hsk_record_read(data, pos, type) ==
  LET r == hsk_record_alloc(type)
      body == ReadBody(data, pos, type, r)
  IN IF r = NULL
     THEN [ok |-> FALSE, rec |-> NULL, pos |-> pos, result |-> FALSE]
     ELSE [ok |-> TRUE, rec |-> body.rec, pos |-> body.pos,
           result |-> body.ok]

(***************************************************************************)
(* hsk_resource_decode and hsk_resource_free.  The heap is the container   *)
(* and the records hsk_record_read allocated, in the order of allocation.  *)
(***************************************************************************)
\* The records hsk_resource_free releases: records[0..record_count-1].
hsk_resource_free(res) == SubSeq(res.records, 1, res.record_count)

\* The state of a decode in progress: the cursor pos, the container res
\* (its records and its record_count field), and what the model keeps to
\* speak about the run: results, what each record's reader returned, and
\* written, the slots of records[] written so far.
\*
\* A finished decode is [ok, res, ...]: ok is what it returned and res what
\* it delivered through resource (NULL: nothing); live are the records it
\* allocated that are still allocated and that nothing points to, freed the
\* ones hsk_resource_free released.

\* decode_enter as it would be without the test of the version byte.
decode_enter_any_version(data) ==
  LET res0 == [version |-> 0, ttl |-> 0, record_count |-> 0, records |-> << >>]
      version == read_u8(data, 0)
      res1 == [res0 EXCEPT !.version = version.v]
  IN IF ~version.ok
     THEN [done |-> TRUE, ok |-> FALSE, res |-> NULL, pos |-> version.pos,
           results |-> << >>, iterations |-> 0, written |-> 0,
           live |-> << >>, freed |-> << >>]
     ELSE [done |-> FALSE, ok |-> FALSE,
           res |-> [res1 EXCEPT !.ttl = HSK_DEFAULT_TTL],
           pos |-> version.pos, results |-> << >>, iterations |-> 0,
           written |-> 0, live |-> << >>, freed |-> << >>]

\* Lines 434-462: the container, the version byte, the TTL.
decode_enter(data) ==
  LET res0 == [version |-> 0, ttl |-> 0, record_count |-> 0, records |-> << >>]
      version == read_u8(data, 0)
      res1 == [res0 EXCEPT !.version = version.v]
      fail == [done |-> TRUE, ok |-> FALSE, res |-> NULL, pos |-> version.pos,
               results |-> << >>, iterations |-> 0, written |-> 0,
               live |-> << >>, freed |-> hsk_resource_free(res1)]
  IN IF ~version.ok THEN fail
     ELSE IF res1.version # 0 THEN fail
     ELSE [done |-> FALSE, ok |-> FALSE,
           res |-> [res1 EXCEPT !.ttl = HSK_DEFAULT_TTL],
           pos |-> version.pos, results |-> << >>, iterations |-> 0,
           written |-> 0, live |-> << >>, freed |-> << >>]

\* Lines 466-487: the loop condition and then either one iteration of the
\* record loop or the return.
decode_step(data, st) ==
  LET type == read_u8(data, st.pos)
      rd == hsk_record_read(data, type.pos, type.v)
      i == Len(st.res.records)
  IN IF ~(Avail(data, st.pos) > 0)
     THEN \* res->record_count = i; *resource = res; return true
          [st EXCEPT !.done = TRUE, !.ok = TRUE, !.res.record_count = i]
     ELSE IF ~rd.ok
          THEN \* goto fail: hsk_resource_free(res); return false
               [st EXCEPT !.done = TRUE, !.ok = FALSE, !.res = NULL,
                          !.pos = type.pos,
                          !.iterations = @ + 1,
                          !.freed = hsk_resource_free(st.res),
                          !.live = SubSeq(st.res.records,
                                          st.res.record_count + 1, i)]
          ELSE \* records[i] = the record; i++
               [st EXCEPT !.res.records = Append(@, rd.rec),
                          !.pos = rd.pos,
                          !.results = Append(@, rd.result),
                          !.iterations = @ + 1,
                          !.written = i + 1]

(***************************************************************************)
(* The DNS side.  An RR is [name, type, ttl, rd]; a section (hsk_dns_rrs_t) *)
(* is the sequence of its RRs.  RR types are written by their names.       *)
(***************************************************************************)
HSK_DNS_NS == "NS"
HSK_DNS_CNAME == "CNAME"
HSK_DNS_DNAME == "DNAME"
HSK_DNS_SOA == "SOA"
HSK_DNS_MX == "MX"
HSK_DNS_TXT == "TXT"
HSK_DNS_RP == "RP"
HSK_DNS_LOC == "LOC"
HSK_DNS_SRV == "SRV"
HSK_DNS_DS == "DS"
HSK_DNS_SSHFP == "SSHFP"
HSK_DNS_RRSIG == "RRSIG"
HSK_DNS_NSEC == "NSEC"
HSK_DNS_URI == "URI"

\* The allocator: it grants every request (limited FALSE), or the next
\* left requests and none after them.
NoFault == [limited |-> FALSE, left |-> 0]

\* An RR a builder is about to make, and the allocations making it takes:
\* hsk_dns_rr_create, and for some types a second one for its data.
Make(type, name, ttl, rd, allocs) ==
  [rr |-> [name |-> name, type |-> type, ttl |-> ttl, rd |-> rd],
   allocs |-> allocs]

\* The body of a builder's loop over the RRs it is about to make, in order:
\* create, fill in, hsk_dns_rrs_push; return false at the first allocation
\* that fails (an RR whose second allocation fails is freed again).
\* [ok, rrs, heap]: what the builder returns, the section and the allocator
\* as it leaves them.
RECURSIVE push_each(_, _, _)
push_each(todo, rrs, heap) ==
  IF todo = << >> THEN [ok |-> TRUE, rrs |-> rrs, heap |-> heap]
  ELSE IF heap.limited /\ heap.left < Head(todo).allocs
       THEN [ok |-> FALSE, rrs |-> rrs, heap |-> [heap EXCEPT !.left = 0]]
  ELSE push_each(Tail(todo), Append(rrs, Head(todo).rr),
                 IF heap.limited
                 THEN [heap EXCEPT !.left = @ - Head(todo).allocs]
                 ELSE heap)

\* What a builder's loop makes of the records of res, record by record.
ForEach(res, F(_)) ==
  Concat(res.record_count, LAMBDA i : F(res.records[i]))

ToLower(ch) == IF 65 <= ch /\ ch <= 90 THEN ch + 32 ELSE ch

\* 0 for strings equal up to the case of their letters.
strcasecmp(a, b) ==
  IF Len(a) = Len(b) /\ \A k \in 1..Len(a) : ToLower(a[k]) = ToLower(b[k])
  THEN 0 ELSE 1

\* "smtp.", "tcp." and "_synth."
Smtp == <<115, 109, 116, 112, 46>>
Tcp == <<116, 99, 112, 46>>
Synth == <<95, 115, 121, 110, 116, 104, 46>>

\* The first 16 bytes of a hsk_target_t in memory: its type, then its name.
TargetMem(target) ==
  SubSeq(<<target.type>> \o target.name \o Rep(0, 16), 1, 16)

\* [ok, host].  ip_to_b32 is handed the target itself, not an address in it.
target_to_dns(target, name, ws) ==
  IF target.type = HSK_NAME \/ target.type = HSK_GLUE
  THEN [ok |-> TRUE, host |-> target.name]
  ELSE IF target.type = HSK_INET4 \/ target.type = HSK_INET6
  THEN LET b32 == ip_to_b32(TargetMem(target), ws)
           tld == hsk_dns_label_get(name, -1)
       IN IF Len(tld) <= 0 THEN [ok |-> FALSE, host |-> << >>]
          ELSE [ok |-> TRUE,
                host |-> <<UNDERSCORE>> \o b32 \o <<DOT>> \o tld \o <<DOT>>]
  ELSE [ok |-> FALSE, host |-> << >>]

hsk_resource_get(res, type) ==
  IF \E i \in 1..res.record_count : res.records[i].type = type
  THEN res.records[CHOOSE i \in 1..res.record_count :
                     /\ res.records[i].type = type
                     /\ \A j \in 1..(i - 1) : res.records[j].type # type]
  ELSE NULL

hsk_resource_has(res, type) == hsk_resource_get(res, type) # NULL

\* The test is HSK_NS <= type <= HSK_SYNTH6; in the header that defines the
\* five tags they are consecutive.
hsk_resource_has_ns(res) ==
  \E i \in 1..res.record_count : res.records[i].type \in NsRange

(***************************************************************************)
(* The section builders.  env is the build and what it finds in memory:    *)
(* wordsize, the size of a pointer, and tail, the 12 bytes that follow the *)
(* 4 address bytes of a SYNTH4 record.                                     *)
(***************************************************************************)
hsk_resource_to_a(res, name, an, heap) ==
  push_each(ForEach(res, LAMBDA c :
              IF c.type # HSK_INET4 THEN << >>
              ELSE <<Make(HSK_DNS_A, name, res.ttl,
                          [addr |-> c.target.inet4], 1)>>),
            an, heap)

hsk_resource_to_aaaa(res, name, an, heap) ==
  push_each(ForEach(res, LAMBDA c :
              IF c.type # HSK_INET6 THEN << >>
              ELSE <<Make(HSK_DNS_AAAA, name, res.ttl,
                          [addr |-> c.target.inet6], 1)>>),
            an, heap)

hsk_resource_to_cname(res, name, an, env, heap) ==
  push_each(ForEach(res, LAMBDA c :
              LET host == target_to_dns(c.target, name, env.wordsize)
              IN IF c.type # HSK_CANONICAL THEN << >>
                 ELSE IF c.target.type # HSK_NAME /\ c.target.type # HSK_GLUE
                      THEN << >>
                 ELSE IF ~host.ok THEN << >>
                 ELSE <<Make(HSK_DNS_CNAME, name, res.ttl,
                             [target |-> host.host], 1)>>),
            an, heap)

hsk_resource_to_dname(res, name, an, env, heap) ==
  push_each(ForEach(res, LAMBDA c :
              LET host == target_to_dns(c.target, name, env.wordsize)
              IN IF c.type # HSK_DELEGATE THEN << >>
                 ELSE IF c.target.type # HSK_NAME /\ c.target.type # HSK_GLUE
                      THEN << >>
                 ELSE IF ~host.ok THEN << >>
                 ELSE <<Make(HSK_DNS_DNAME, name, res.ttl,
                             [target |-> host.host], 1)>>),
            an, heap)

\* The name of the name server of an NS-like record.
NsName(c, env) ==
  IF c.type = HSK_SYNTH4
  THEN <<UNDERSCORE>> \o ip_to_b32(c.inet4 \o env.tail, env.wordsize)
       \o <<DOT>> \o Synth
  ELSE IF c.type = HSK_SYNTH6
  THEN <<UNDERSCORE>> \o ip_to_b32(c.inet6, env.wordsize) \o <<DOT>> \o Synth
  ELSE c.name

\* hsk_resource_to_ns as it would be with the SYNTH4 and SYNTH6 cases left out
\* of its switch.
to_ns_without_synth(res, name, an, env, heap) ==
  push_each(ForEach(res, LAMBDA c :
              IF c.type \notin {HSK_NS, HSK_GLUE4, HSK_GLUE6}
              THEN << >>
              ELSE <<Make(HSK_DNS_NS, name, res.ttl,
                          [ns |-> NsName(c, env)], 1)>>),
            an, heap)

hsk_resource_to_ns(res, name, an, env, heap) ==
  push_each(ForEach(res, LAMBDA c :
              IF c.type \notin {HSK_SYNTH4, HSK_SYNTH6, HSK_NS, HSK_GLUE4,
                                HSK_GLUE6}
              THEN << >>
              ELSE <<Make(HSK_DNS_NS, name, res.ttl,
                          [ns |-> NsName(c, env)], 1)>>),
            an, heap)

hsk_resource_to_nsip(res, name, ar, env, heap) ==
  push_each(ForEach(res, LAMBDA c :
              LET ptr == target_to_dns(c.target, name, env.wordsize)
              IN IF c.type # HSK_NS THEN << >>
                 ELSE IF c.target.type # HSK_INET4
                         /\ c.target.type # HSK_INET6
                      THEN << >>
                 ELSE IF ~ptr.ok THEN << >>
                 ELSE IF c.target.type = HSK_INET6
                      THEN <<Make(HSK_DNS_AAAA, ptr.host, res.ttl,
                                  [addr |-> c.target.inet6], 1)>>
                 ELSE <<Make(HSK_DNS_A, ptr.host, res.ttl,
                             [addr |-> c.target.inet4], 1)>>),
            ar, heap)

\* hsk_resource_to_mx as it would be if service and protocol were compared
\* byte by byte.
to_mx_case_sensitive(res, name, an, env, heap) ==
  push_each(ForEach(res, LAMBDA c :
              LET mx == target_to_dns(c.target, name, env.wordsize)
              IN IF c.type # HSK_SERVICE THEN << >>
                 ELSE IF c.service # Smtp \/ c.protocol # Tcp THEN << >>
                 ELSE IF ~mx.ok THEN << >>
                 ELSE <<Make(HSK_DNS_MX, name, res.ttl,
                             [preference |-> c.priority, mx |-> mx.host],
                             1)>>),
            an, heap)

hsk_resource_to_mx(res, name, an, env, heap) ==
  push_each(ForEach(res, LAMBDA c :
              LET mx == target_to_dns(c.target, name, env.wordsize)
              IN IF c.type # HSK_SERVICE THEN << >>
                 ELSE IF strcasecmp(c.service, Smtp) # 0
                         \/ strcasecmp(c.protocol, Tcp) # 0
                      THEN << >>
                 ELSE IF ~mx.ok THEN << >>
                 ELSE <<Make(HSK_DNS_MX, name, res.ttl,
                             [preference |-> c.priority, mx |-> mx.host],
                             1)>>),
            an, heap)

hsk_resource_to_srv(res, name, protocol, service, an, env, heap) ==
  push_each(ForEach(res, LAMBDA c :
              LET host == target_to_dns(c.target, name, env.wordsize)
              IN IF c.type # HSK_SERVICE THEN << >>
                 ELSE IF strcasecmp(protocol, c.protocol) # 0 THEN << >>
                 ELSE IF strcasecmp(service, c.service) # 0 THEN << >>
                 ELSE IF ~host.ok THEN << >>
                 ELSE <<Make(HSK_DNS_SRV, name, res.ttl,
                             [priority |-> c.priority, weight |-> c.weight,
                              port |-> c.port, target |-> host.host], 1)>>),
            an, heap)

\* hsk_resource_to_srvip is not among the sources: taken to do for the
\* SERVICE records of that protocol and service what hsk_resource_to_nsip
\* does for NS records.
hsk_resource_to_srvip(res, name, protocol, service, an, env, heap) ==
  push_each(ForEach(res, LAMBDA c :
              LET ptr == target_to_dns(c.target, name, env.wordsize)
              IN IF c.type # HSK_SERVICE THEN << >>
                 ELSE IF strcasecmp(protocol, c.protocol) # 0
                         \/ strcasecmp(service, c.service) # 0
                      THEN << >>
                 ELSE IF c.target.type # HSK_INET4
                         /\ c.target.type # HSK_INET6
                      THEN << >>
                 ELSE IF ~ptr.ok THEN << >>
                 ELSE IF c.target.type = HSK_INET6
                      THEN <<Make(HSK_DNS_AAAA, ptr.host, res.ttl,
                                  [addr |-> c.target.inet6], 1)>>
                 ELSE <<Make(HSK_DNS_A, ptr.host, res.ttl,
                             [addr |-> c.target.inet4], 1)>>),
            an, heap)

hsk_resource_to_mxip(res, name, an, env, heap) ==
  hsk_resource_to_srvip(res, name, Tcp, Smtp, an, env, heap)

\* hsk_resource_to_txt as it would be with the TTL of the root SOA.
to_txt_day_ttl(res, name, an, heap) ==
  push_each(ForEach(res, LAMBDA c :
              IF c.type # HSK_TEXT THEN << >>
              ELSE <<Make(HSK_DNS_TXT, name, 86400,
                          [txts |-> <<c.text>>], 2)>>),
            an, heap)

hsk_resource_to_txt(res, name, an, heap) ==
  push_each(ForEach(res, LAMBDA c :
              IF c.type # HSK_TEXT THEN << >>
              ELSE <<Make(HSK_DNS_TXT, name, res.ttl,
                          [txts |-> <<c.text>>], 2)>>),
            an, heap)

hsk_resource_to_loc(res, name, an, heap) ==
  push_each(ForEach(res, LAMBDA c :
              IF c.type # HSK_LOCATION THEN << >>
              ELSE <<Make(HSK_DNS_LOC, name, res.ttl,
                          [version |-> c.version, size |-> c.size,
                           horiz_pre |-> c.horiz_pre, vert_pre |-> c.vert_pre,
                           latitude |-> c.latitude, longitude |-> c.longitude,
                           altitude |-> c.altitude], 1)>>),
            an, heap)

hsk_resource_to_ds(res, name, an, heap) ==
  push_each(ForEach(res, LAMBDA c :
              IF c.type # HSK_DS THEN << >>
              ELSE <<Make(HSK_DNS_DS, name, res.ttl,
                          [key_tag |-> c.key_tag, algorithm |-> c.algorithm,
                           digest_type |-> c.digest_type,
                           digest_len |-> c.digest_len,
                           digest |-> SubSeq(c.digest, 1, c.digest_len)], 2)>>),
            an, heap)

hsk_resource_to_sshfp(res, name, an, heap) ==
  push_each(ForEach(res, LAMBDA c :
              IF c.type # HSK_SSH THEN << >>
              ELSE <<Make(HSK_DNS_SSHFP, name, res.ttl,
                          [algorithm |-> c.algorithm,
                           digest_type |-> c.digest_type,
                           fingerprint_len |-> c.fingerprint_len,
                           fingerprint |-> SubSeq(c.fingerprint, 1,
                                                  c.fingerprint_len)], 2)>>),
            an, heap)

\* hsk_hex_encode: two lower-case hex digits a byte.
HexChar(k) == IF k < 10 THEN 48 + k ELSE 97 + (k - 10)
hsk_hex_encode(data) ==
  Concat(Len(data), LAMBDA k : <<HexChar(data[k] \div 16),
                                 HexChar(data[k] % 16)>>)

hsk_to_lower(str) == [k \in 1..Len(str) |-> ToLower(str[k])]

\* "magnet:?xt=urn:"
MagnetUrn == <<109, 97, 103, 110, 101, 116, 58, 63, 120, 116, 61, 117, 114,
               110, 58>>
COLON == 58

\* The address of an ADDR record as the URI shows it.
AddrText(c) ==
  IF c.ctype = 0 THEN c.address
  ELSE <<48, 120>> \o hsk_hex_encode(SubSeq(c.hash, 1, c.hash_len))

\* Three loops, one after the other: URL, MAGNET and ADDR records.
hsk_resource_to_uri(res, name, an, heap) ==
  LET uri(data) == Make(HSK_DNS_URI, name, res.ttl,
                        [priority |-> 0, weight |-> 0,
                         data_len |-> Len(data), data |-> data], 1)
      nid(c) == hsk_to_lower(hsk_dns_label_get(c.nid, 0))
      currency(c) == hsk_to_lower(hsk_dns_label_get(c.currency, 0))
  IN push_each(
       ForEach(res, LAMBDA c :
         IF c.type # HSK_URI THEN << >> ELSE <<uri(c.text)>>)
       \o ForEach(res, LAMBDA c :
         IF c.type # HSK_MAGNET THEN << >>
         ELSE IF 16 + Len(nid(c)) + c.nin_len * 2 + 1 > 255 THEN << >>
         ELSE <<uri(MagnetUrn \o nid(c) \o <<COLON>>
                    \o hsk_hex_encode(SubSeq(c.nin, 1, c.nin_len)))>>)
       \o ForEach(res, LAMBDA c :
         IF c.type # HSK_ADDR THEN << >>
         ELSE IF c.ctype # 0 /\ c.ctype # 3 THEN << >>
         ELSE IF Len(currency(c)) + 1 + Len(AddrText(c)) + 1 > 255 THEN << >>
         ELSE <<uri(currency(c) \o <<COLON>> \o AddrText(c))>>),
       an, heap)

\* dns.c (not among the sources): a well-formed name, "." or labels of 1 to
\* 63 bytes each followed by a dot, 255 bytes at most.
hsk_dns_name_verify(name) ==
  /\ hsk_dns_name_is_fqdn(name)
  /\ Len(name) <= HSK_DNS_MAX_NAME
  /\ \/ name = <<DOT>>
     \/ /\ name[1] # DOT
        /\ \A k \in 1..(Len(name) - 1) : ~(name[k] = DOT /\ name[k + 1] = DOT)
        /\ \A k \in 1..Len(Labels(name)) : Len(Labels(name)[k]) <= 63

hsk_resource_to_rp(res, name, an, heap) ==
  push_each(ForEach(res, LAMBDA c :
              IF c.type # HSK_EMAIL THEN << >>
              ELSE IF Len(c.text) > 63 THEN << >>
              ELSE IF ~hsk_dns_name_verify(c.text \o <<DOT>>) THEN << >>
              ELSE <<Make(HSK_DNS_RP, name, res.ttl,
                          [mbox |-> c.text \o <<DOT>>, txt |-> <<DOT>>], 1)>>),
            an, heap)

\* The A and AAAA RRs of the GLUE targets of the records behind rrtype.
hsk_resource_to_glue(res, an, rrtype, heap) ==
  push_each(ForEach(res, LAMBDA c :
              IF ~ \/ c.type = HSK_CANONICAL /\ rrtype = HSK_DNS_CNAME
                   \/ c.type = HSK_DELEGATE /\ rrtype = HSK_DNS_DNAME
                   \/ c.type = HSK_NS /\ rrtype = HSK_DNS_NS
                   \/ /\ c.type = HSK_SERVICE
                      /\ rrtype \in {HSK_DNS_SRV, HSK_DNS_MX}
                      /\ rrtype = HSK_DNS_MX =>
                           /\ strcasecmp(c.service, Smtp) = 0
                           /\ strcasecmp(c.protocol, Tcp) = 0
              THEN << >>
              ELSE IF c.target.type # HSK_GLUE THEN << >>
              ELSE (IF c.target.inet4 # Zero4
                    THEN <<Make(HSK_DNS_A, c.target.name, res.ttl,
                                [addr |-> c.target.inet4], 1)>>
                    ELSE << >>)
                   \o (IF c.target.inet6 # Zero16
                       THEN <<Make(HSK_DNS_AAAA, c.target.name, res.ttl,
                                   [addr |-> c.target.inet6], 1)>>
                       ELSE << >>)),
            an, heap)

\* now is what hsk_ymdh reads off the clock: [year, month, day, hour].  The
\* serial fits its 32 bits for the years up to 4294.
hsk_resource_root_to_soa(an, now, heap) ==
  push_each(<<Make(HSK_DNS_SOA, <<DOT>>, 86400,
                   [ns |-> <<DOT>>, mbox |-> <<DOT>>,
                    serial |-> now.year * 1000000 + now.month * 10000
                               + now.day * 100 + now.hour,
                    refresh |-> 1800, retry |-> 900, expire |-> 604800,
                    minttl |-> 86400], 1)>>,
            an, heap)

\* type_map is NULL or the bytes of the type bitmap.
hsk_resource_to_empty(name, type_map, an, heap) ==
  push_each(<<Make(HSK_DNS_NSEC, name, 86400,
                   [next_domain |-> <<DOT>>,
                    type_map |-> type_map,
                    type_map_len |-> IF type_map = NULL THEN 0
                                     ELSE Len(type_map)],
                   IF type_map = NULL THEN 1 ELSE 2)>>,
            an, heap)

(***************************************************************************)
(* dnssec.c (not among the sources).  hsk_dnssec_sign_zsk(rrs, type)       *)
(* appends to the section an RRSIG made with the zone signing key over the *)
(* RRs of that type in it; a section with no RR of that type is left as it *)
(* is.                                                                     *)
(***************************************************************************)
hsk_dnssec_sign_zsk(rrs, type, heap) ==
  LET covered == SelectSeq(rrs, LAMBDA rr : rr.type = type)
  IN IF covered = << >> THEN [ok |-> FALSE, rrs |-> rrs, heap |-> heap]
     ELSE push_each(<<Make(HSK_DNS_RRSIG, covered[1].name, covered[1].ttl,
                           [type_covered |-> type, signer_name |-> <<DOT>>],
                           1)>>,
                    rrs, heap)

(***************************************************************************)
(* hsk_resource_to_dns.  The message under construction is                 *)
(* [an, ns, ar, flags, heap, rets]: its three sections, its flags, the     *)
(* allocator, rets, what each builder called so far returned (the          *)
(* dispatcher does not look at it), and at_switch, the sizes of the answer *)
(* and the authority section at line 1674, after the switch.  The dispatcher's branches are the     *)
(* calls they make, in order, each a [fn, name, sec, type].                *)
(***************************************************************************)
HSK_DNS_AA == "AA"

Build(fn, name, sec) == [fn |-> fn, name |-> name, sec |-> sec, type |-> ""]
Glue(sec, rrtype) == [fn |-> "to_glue", name |-> << >>, sec |-> sec,
                      type |-> rrtype]
Sign(sec, type) == [fn |-> "sign_zsk", name |-> << >>, sec |-> sec,
                    type |-> type]

\* One call of the dispatcher: the builder or the signer works on its
\* section, and whatever it returns the dispatcher goes on.
Call(rs, env, c, m) ==
  LET rrs == m[c.sec]
      r == CASE c.fn = "to_a" -> hsk_resource_to_a(rs, c.name, rrs, m.heap)
             [] c.fn = "to_aaaa" ->
                  hsk_resource_to_aaaa(rs, c.name, rrs, m.heap)
             [] c.fn = "to_cname" ->
                  hsk_resource_to_cname(rs, c.name, rrs, env, m.heap)
             [] c.fn = "to_dname" ->
                  hsk_resource_to_dname(rs, c.name, rrs, env, m.heap)
             [] c.fn = "to_ns" ->
                  hsk_resource_to_ns(rs, c.name, rrs, env, m.heap)
             [] c.fn = "to_nsip" ->
                  hsk_resource_to_nsip(rs, c.name, rrs, env, m.heap)
             [] c.fn = "to_mx" ->
                  hsk_resource_to_mx(rs, c.name, rrs, env, m.heap)
             [] c.fn = "to_mxip" ->
                  hsk_resource_to_mxip(rs, c.name, rrs, env, m.heap)
             [] c.fn = "to_txt" -> hsk_resource_to_txt(rs, c.name, rrs, m.heap)
             [] c.fn = "to_loc" -> hsk_resource_to_loc(rs, c.name, rrs, m.heap)
             [] c.fn = "to_ds" -> hsk_resource_to_ds(rs, c.name, rrs, m.heap)
             [] c.fn = "to_sshfp" ->
                  hsk_resource_to_sshfp(rs, c.name, rrs, m.heap)
             [] c.fn = "to_uri" -> hsk_resource_to_uri(rs, c.name, rrs, m.heap)
             [] c.fn = "to_rp" -> hsk_resource_to_rp(rs, c.name, rrs, m.heap)
             [] c.fn = "to_glue" ->
                  hsk_resource_to_glue(rs, rrs, c.type, m.heap)
             [] c.fn = "to_empty" ->
                  hsk_resource_to_empty(c.name, NULL, rrs, m.heap)
             [] c.fn = "root_to_soa" ->
                  hsk_resource_root_to_soa(rrs, env.now, m.heap)
             [] c.fn = "sign_zsk" -> hsk_dnssec_sign_zsk(rrs, c.type, m.heap)
  IN [m EXCEPT ![c.sec] = r.rrs,
               !.heap = r.heap,
               !.rets = IF c.fn = "sign_zsk" THEN @
                        ELSE Append(@, [fn |-> c.fn, ok |-> r.ok])]

\* ReferralCalls as it would be if the authority section were signed over NS
\* whether or not the resource has a DS record.
referral_signs_ns(rs, name) ==
  << Build("to_ns", name, "ns"),
     Build("to_ds", name, "ns"),
     Build("to_nsip", name, "ar"),
     Glue("ar", HSK_DNS_NS),
     Sign("ns", HSK_DNS_NS) >>

\* Lines 1587-1594 and 1686-1693: NS and DS into the authority section, the
\* addresses of the name servers into the additional section.
ReferralCalls(rs, name) ==
  << Build("to_ns", name, "ns"),
     Build("to_ds", name, "ns"),
     Build("to_nsip", name, "ar"),
     Glue("ar", HSK_DNS_NS),
     IF ~hsk_resource_has(rs, HSK_DS)
     THEN Sign("ns", HSK_DNS_NS)
     ELSE Sign("ns", HSK_DNS_DS) >>

\* Lines 1596-1600, 1630-1634.
DnameCalls(name) ==
  << Build("to_dname", name, "an"),
     Glue("ar", HSK_DNS_DNAME),
     Sign("an", HSK_DNS_DNAME),
     Sign("ar", HSK_DNS_A),
     Sign("ar", HSK_DNS_AAAA) >>

\* Lines 1623-1627, 1680-1684.
CnameCalls(name) ==
  << Build("to_cname", name, "an"),
     Glue("ar", HSK_DNS_CNAME),
     Sign("an", HSK_DNS_CNAME),
     Sign("ar", HSK_DNS_A),
     Sign("ar", HSK_DNS_AAAA) >>

\* EmptyProofCalls as it would be with the SOA left unsigned.
empty_proof_unsigned_soa(name) ==
  << Build("to_empty", name, "ns"),
     Sign("ns", HSK_DNS_NSEC),
     Build("root_to_soa", << >>, "ns") >>

\* Lines 1604-1607, 1697-1700: the empty proof.
EmptyProofCalls(name) ==
  << Build("to_empty", name, "ns"),
     Sign("ns", HSK_DNS_NSEC),
     Build("root_to_soa", << >>, "ns"),
     Sign("ns", HSK_DNS_SOA) >>

\* Lines 1613-1672: the switch on the query type; a type it has no case for
\* makes no call.
SwitchCalls(name, type) ==
  CASE type = HSK_DNS_A -> <<Build("to_a", name, "an"), Sign("an", type)>>
    [] type = HSK_DNS_AAAA ->
         <<Build("to_aaaa", name, "an"), Sign("an", type)>>
    [] type = HSK_DNS_CNAME -> CnameCalls(name)
    [] type = HSK_DNS_DNAME -> DnameCalls(name)
    [] type = HSK_DNS_NS ->
         << Build("to_ns", name, "ns"),
            Glue("ar", HSK_DNS_NS),
            Build("to_nsip", name, "ar"),
            Sign("ns", HSK_DNS_NS) >>
    [] type = HSK_DNS_MX ->
         << Build("to_mx", name, "an"),
            Build("to_mxip", name, "ar"),
            Glue("ar", HSK_DNS_MX),
            Sign("an", HSK_DNS_MX) >>
    [] type = HSK_DNS_TXT -> <<Build("to_txt", name, "an"), Sign("an", type)>>
    [] type = HSK_DNS_LOC -> <<Build("to_loc", name, "an"), Sign("an", type)>>
    [] type = HSK_DNS_DS -> <<Build("to_ds", name, "an"), Sign("an", type)>>
    [] type = HSK_DNS_SSHFP ->
         <<Build("to_sshfp", name, "an"), Sign("an", type)>>
    [] type = HSK_DNS_URI -> <<Build("to_uri", name, "an"), Sign("an", type)>>
    [] type = HSK_DNS_RP -> <<Build("to_rp", name, "an"), Sign("an", type)>>
    [] OTHER -> << >>

\* Lines 1674-1702, the end of the single-label path, as a call: where it
\* stands among the calls the flags are set and the calls of the fallback
\* chosen.
AfterSwitch(name) == [fn |-> "after_switch", name |-> name, sec |-> "",
                      type |-> ""]

\* SetFlags as it would be if AA were set on the single-label path whatever
\* the answer section holds.
set_flags_always(rs, m) ==
  [m EXCEPT !.flags = @ \cup {HSK_DNS_AA}]

\* Lines 1674-1675 and 1679: AA for a non-empty answer section, and before
\* the CNAME fallback.
SetFlags(rs, m) ==
  IF \/ m.an # << >>
     \/ m.ns = << >> /\ hsk_resource_has(rs, HSK_CANONICAL)
  THEN [m EXCEPT !.flags = @ \cup {HSK_DNS_AA}]
  ELSE m

\* Lines 1677-1702: the calls made when the switch left the answer and the
\* authority section empty.
FallbackCalls(rs, name, m) ==
  IF m.an = << >> /\ m.ns = << >>
  THEN IF hsk_resource_has(rs, HSK_CANONICAL) THEN CnameCalls(name)
       ELSE IF hsk_resource_has(rs, HSK_NS) THEN ReferralCalls(rs, name)
       ELSE EmptyProofCalls(name)
  ELSE << >>

\* The calls one after the other.
RECURSIVE Run(_, _, _, _)
Run(rs, env, calls, m) ==
  IF calls = << >> THEN m
  ELSE IF Head(calls).fn = "after_switch"
       THEN Run(rs, env, FallbackCalls(rs, Head(calls).name, m),
                SetFlags(rs, [m EXCEPT !.at_switch =
                                         [an |-> Len(m.an), ns |-> Len(m.ns)]]))
  ELSE Run(rs, env, Tail(calls), Call(rs, env, Head(calls), m))

\* NULL, or the message returned.
hsk_resource_to_dns(rs, name, type, env, heap) ==
  LET labels == hsk_dns_label_count(name)
      tld == hsk_dns_label_from(name, -1)
      msg == [an |-> << >>, ns |-> << >>, ar |-> << >>, flags |-> {},
              heap |-> IF heap.limited THEN [heap EXCEPT !.left = @ - 1]
                       ELSE heap,
              rets |-> << >>,
              at_switch |-> [an |-> 0, ns |-> 0]]
  IN IF labels = 0 THEN NULL
     ELSE IF heap.limited /\ heap.left < 1 THEN NULL
     ELSE Run(rs, env,
              IF labels > 1
              THEN IF hsk_resource_has_ns(rs) THEN ReferralCalls(rs, tld)
                   ELSE IF hsk_resource_has(rs, HSK_DELEGATE)
                   THEN DnameCalls(name)
                   ELSE EmptyProofCalls(tld)
              ELSE SwitchCalls(name, type) \o <<AfterSwitch(name)>>,
              msg)

(***************************************************************************)
(* The root zone and the messages that carry no resource.  addr is the     *)
(* server's own address (addr.h, not among the sources): [family, ip].     *)
(* The message is [code, flags, an, ns, ar, heap].                         *)
(***************************************************************************)
HSK_DNS_ANY == "ANY"
HSK_DNS_DNSKEY == "DNSKEY"

HSK_DNS_NOERROR == "NOERROR"
HSK_DNS_SERVFAIL == "SERVFAIL"
HSK_DNS_NXDOMAIN == "NXDOMAIN"
HSK_DNS_NOTIMP == "NOTIMP"

\* NS SOA RRSIG NSEC DNSKEY
hsk_type_map == <<0, 7, 34, 0, 0, 0, 0, 3, 128>>

hsk_addr_is_ip4(addr) == addr.family = 4
hsk_addr_is_ip6(addr) == addr.family = 6
hsk_addr_get_ip(addr) == addr.ip

hsk_resource_root_to_ns(an, heap) ==
  push_each(<<Make(HSK_DNS_NS, <<DOT>>, 518400, [ns |-> <<DOT>>], 1)>>,
            an, heap)

hsk_resource_root_to_a(an, addr, heap) ==
  IF addr = NULL \/ ~hsk_addr_is_ip4(addr)
  THEN [ok |-> TRUE, rrs |-> an, heap |-> heap]
  ELSE push_each(<<Make(HSK_DNS_A, <<DOT>>, 518400,
                        [addr |-> SubSeq(hsk_addr_get_ip(addr), 1, 4)], 1)>>,
                 an, heap)

hsk_resource_root_to_aaaa(an, addr, heap) ==
  IF addr = NULL \/ ~hsk_addr_is_ip6(addr)
  THEN [ok |-> TRUE, rrs |-> an, heap |-> heap]
  ELSE push_each(<<Make(HSK_DNS_AAAA, <<DOT>>, 518400,
                        [addr |-> SubSeq(hsk_addr_get_ip(addr), 1, 16)], 1)>>,
                 an, heap)

\* The key RRs of dnssec.c (not among the sources), cloned as they are.
hsk_dnssec_get_ksk == [name |-> <<DOT>>, type |-> HSK_DNS_DNSKEY,
                       ttl |-> 86400, rd |-> [flags |-> 257]]
hsk_dnssec_get_zsk == [name |-> <<DOT>>, type |-> HSK_DNS_DNSKEY,
                       ttl |-> 86400, rd |-> [flags |-> 256]]
hsk_dnssec_get_ds == [name |-> <<DOT>>, type |-> HSK_DNS_DS,
                      ttl |-> 86400, rd |-> [key_tag |-> 0]]

\* The second clone is not made when the first fails.
hsk_resource_root_to_dnskey(an, heap) ==
  push_each(<<[rr |-> hsk_dnssec_get_ksk, allocs |-> 1],
              [rr |-> hsk_dnssec_get_zsk, allocs |-> 1]>>, an, heap)

hsk_resource_root_to_ds(an, heap) ==
  push_each(<<[rr |-> hsk_dnssec_get_ds, allocs |-> 1]>>, an, heap)

\* The RR and the copy of the bitmap are two allocations.
hsk_resource_root_to_nsec(an, heap) ==
  push_each(<<Make(HSK_DNS_NSEC, <<DOT>>, 86400,
                   [next_domain |-> <<DOT>>,
                    type_map |-> hsk_type_map,
                    type_map_len |-> Len(hsk_type_map)], 2)>>,
            an, heap)

\* As hsk_dnssec_sign_zsk, with the key signing key.
hsk_dnssec_sign_ksk(rrs, type, heap) ==
  LET covered == SelectSeq(rrs, LAMBDA rr : rr.type = type)
  IN IF covered = << >> THEN [ok |-> FALSE, rrs |-> rrs, heap |-> heap]
     ELSE push_each(<<Make(HSK_DNS_RRSIG, covered[1].name, covered[1].ttl,
                           [type_covered |-> type, signer_name |-> <<DOT>>,
                            key |-> "ksk"], 1)>>,
                    rrs, heap)

\* hsk_dns_msg_alloc: NULL, or the empty message and the allocator after it.
hsk_dns_msg_alloc(heap) ==
  IF heap.limited /\ heap.left < 1 THEN NULL
  ELSE [code |-> HSK_DNS_NOERROR, flags |-> {}, an |-> << >>, ns |-> << >>,
        ar |-> << >>,
        heap |-> IF heap.limited THEN [heap EXCEPT !.left = @ - 1] ELSE heap]

\* A builder or a signer has worked on a section of the message; what it
\* returned is dropped.
Into(m, sec, r) == [m EXCEPT ![sec] = r.rrs, !.heap = r.heap]

\* Lines 1726-1734 and 1744-1752: the server's own address, signed.
RootAddress(m, addr) ==
  LET m1 == IF hsk_addr_is_ip4(addr)
            THEN LET b == Into(m, "ar",
                               hsk_resource_root_to_a(m.ar, addr, m.heap))
                 IN Into(b, "ar", hsk_dnssec_sign_zsk(b.ar, HSK_DNS_A, b.heap))
            ELSE m
  IN IF hsk_addr_is_ip6(addr)
     THEN LET b == Into(m1, "ar",
                        hsk_resource_root_to_aaaa(m1.ar, addr, m1.heap))
          IN Into(b, "ar", hsk_dnssec_sign_zsk(b.ar, HSK_DNS_AAAA, b.heap))
     ELSE m1

\* The section sec after builder result r and a signature over type.
BuiltAndSigned(m, sec, r, type) ==
  LET b == Into(m, sec, r)
  IN Into(b, sec, hsk_dnssec_sign_zsk(b[sec], type, b.heap))

hsk_resource_root(type, addr, now, heap) ==
  LET msg == hsk_dns_msg_alloc(heap)
      m == [msg EXCEPT !.flags = @ \cup {HSK_DNS_AA}]
  IN IF msg = NULL THEN NULL
     ELSE IF type \in {HSK_DNS_ANY, HSK_DNS_NS}
     THEN RootAddress(
            BuiltAndSigned(m, "an", hsk_resource_root_to_ns(m.an, m.heap),
                           HSK_DNS_NS),
            addr)
     ELSE IF type = HSK_DNS_SOA
     THEN LET a == BuiltAndSigned(m, "an",
                     hsk_resource_root_to_soa(m.an, now, m.heap), HSK_DNS_SOA)
          IN RootAddress(
               BuiltAndSigned(a, "ns", hsk_resource_root_to_ns(a.ns, a.heap),
                              HSK_DNS_NS),
               addr)
     ELSE IF type = HSK_DNS_DNSKEY
     THEN LET b == Into(m, "an", hsk_resource_root_to_dnskey(m.an, m.heap))
          IN Into(b, "an", hsk_dnssec_sign_ksk(b.an, HSK_DNS_DNSKEY, b.heap))
     ELSE IF type = HSK_DNS_DS
     THEN BuiltAndSigned(m, "an", hsk_resource_root_to_ds(m.an, m.heap),
                         HSK_DNS_DS)
     ELSE \* the empty proof
          LET a == BuiltAndSigned(m, "ns",
                     hsk_resource_root_to_nsec(m.ns, m.heap), HSK_DNS_NSEC)
          IN BuiltAndSigned(a, "ns",
               hsk_resource_root_to_soa(a.ns, now, a.heap), HSK_DNS_SOA)

\* hsk_resource_to_nx as it would be with one root NSEC.
to_nx_one_nsec(now, heap) ==
  LET msg == hsk_dns_msg_alloc(heap)
      m == [msg EXCEPT !.code = HSK_DNS_NXDOMAIN,
                       !.flags = @ \cup {HSK_DNS_AA}]
      a == BuiltAndSigned(m, "ns", hsk_resource_root_to_nsec(m.ns, m.heap),
                          HSK_DNS_NSEC)
  IN IF msg = NULL THEN NULL
     ELSE BuiltAndSigned(a, "ns", hsk_resource_root_to_soa(a.ns, now, a.heap),
                         HSK_DNS_SOA)

hsk_resource_to_nx(now, heap) ==
  LET msg == hsk_dns_msg_alloc(heap)
      m == [msg EXCEPT !.code = HSK_DNS_NXDOMAIN,
                       !.flags = @ \cup {HSK_DNS_AA}]
      n1 == Into(m, "ns", hsk_resource_root_to_nsec(m.ns, m.heap))
      n2 == BuiltAndSigned(n1, "ns",
                           hsk_resource_root_to_nsec(n1.ns, n1.heap),
                           HSK_DNS_NSEC)
  IN IF msg = NULL THEN NULL
     ELSE BuiltAndSigned(n2, "ns",
                         hsk_resource_root_to_soa(n2.ns, now, n2.heap),
                         HSK_DNS_SOA)

hsk_resource_to_servfail(heap) ==
  LET msg == hsk_dns_msg_alloc(heap)
  IN IF msg = NULL THEN NULL ELSE [msg EXCEPT !.code = HSK_DNS_SERVFAIL]

hsk_resource_to_notimp(heap) ==
  LET msg == hsk_dns_msg_alloc(heap)
  IN IF msg = NULL THEN NULL ELSE [msg EXCEPT !.code = HSK_DNS_NOTIMP]

(***************************************************************************)
(* Inputs of the codec actions.                                            *)
(***************************************************************************)
\* IPv4 addresses: every address over these octets.
Octets == {0, 1, 255}
IPv4s == [1..4 -> Octets]

\* IPv6 addresses: each 16-bit group is zero or one of two values.
Groups == {<<0, 0>>, <<32, 1>>}
IPv6s ==
  {Concat(8, LAMBDA k : g[k]) : g \in [1..8 -> Groups]}
  \cup {MappedPrefix \o <<192, 0, 2, 1>>}

\* Every pattern of zero and non-zero bytes a 16-byte address can have.
Patterns == [1..16 -> {0, 255}]

\* sizeof(const uint8_t *) of the build.
WordSizes == {4, 8}

\* What may follow a 4-byte address in memory (the 12 bytes after it).
Tails == {Rep(0, 12), Rep(0, 6) \o <<255, 255>> \o Rep(7, 4), Rep(170, 12)}

\* Labels handed to is_ptr.
\* '_', '0', '1', 'g', 'v' and 'x', which is no base32-hex digit.
PtrChars == {95, 48, 49, 103, 118, 120}
PtrLabels == SeqsUpTo(PtrChars, MaxB32 + 1)

\* "alice."
alice == <<97, 108, 105, 99, 101, 46>>

(***************************************************************************)
(* Inputs of the decoder actions: a version byte, then record encodings,   *)
(* well-formed and not.                                                    *)
(***************************************************************************)
Fragments ==
  { <<13, 2, 104, 105>>,                   \* TEXT "hi"
    <<13, 0>>,                             \* TEXT ""
    <<13, 1, 7>>,                          \* TEXT, a BEL
    <<13, 1, 127>>,                        \* TEXT, a DEL
    <<13, 1, 128>>,                        \* TEXT, a byte over 0x7f
    <<13, 3, 104>>,                        \* TEXT, cut short
    <<16, 48, 57, 13, 2, 2, 171, 205>>,    \* DS, a 2-byte digest
    <<16, 48, 57, 13, 2, 65>>,             \* DS, digest length 65
    <<16, 48, 57>>,                        \* DS, cut short
    <<9, 2, 110, 115, 0>>,                 \* NS "ns."
    <<9, 64>>,                             \* NS, a label length of 64
    <<9, 192, 2>>,                         \* NS, a pointer to offset 2
    <<21, 2, 110, 115, 0, 192, 0, 2, 1>>,  \* GLUE4 "ns." 192.0.2.1
    <<23, 198, 51, 100, 7>>,               \* SYNTH4 198.51.100.7
    <<24, 32, 1>> \o Rep(0, 13),            \* SYNTH6, cut short
    <<1>> }                                \* a tag with no reader

DecodeInputs ==
  {<< >>, <<1>>, <<1, 13, 0>>}
  \cup {<<0>> \o Concat(Len(fs), LAMBDA k : fs[k]) :
          fs \in SeqsUpTo(Fragments, MaxFrags)}

\* One record encoding repeated up to and past the number of slots.
FloodBlocks == {<<13, 0>>}
FloodCounts == {RecordSlots - 1, RecordSlots, RecordSlots + 1}

\* What follows the last block: nothing, or a tag with no reader.
FloodEnds == {<< >>, <<1>>}

\* Strings handed to hsk_resource_str_read, and their size bytes.
TextBytes == {7, 9, 32, 65, 126, 127, 128, 255}
Texts == SeqsUpTo(TextBytes, MaxText)

(***************************************************************************)
(* Inputs of to_dns: resources of up to MaxRecs records, the records the   *)
(* decoder makes of an encoding and records of the header's other types.   *)
(***************************************************************************)
\* "ns." and 192.0.2.1
ns_name == <<110, 115, 46>>
Addr4 == <<192, 0, 2, 1>>

Target(type, name, inet4) ==
  [type |-> type, name |-> name, inet4 |-> inet4, inet6 |-> Zero16]

\* The record the decoder makes of one encoding.
Decoded(frag) == hsk_record_read(frag, 1, frag[1]).rec

Service(service, target) ==
  [type |-> HSK_SERVICE, service |-> service, protocol |-> Tcp,
   priority |-> 10, weight |-> 0, port |-> 25, target |-> target]

Catalogue ==
  { Decoded(<<9, 2, 110, 115, 0>>),                    \* NS "ns."
    Decoded(<<21, 2, 110, 115, 0, 192, 0, 2, 1>>),     \* GLUE4 "ns." 192.0.2.1
    Decoded(<<23, 198, 51, 100, 7>>),                  \* SYNTH4 198.51.100.7
    Decoded(<<16, 48, 57, 13, 2, 2, 171, 205>>),       \* DS
    Decoded(<<13, 2, 104, 105>>),                      \* TEXT "hi"
    [type |-> HSK_CANONICAL, target |-> Target(HSK_NAME, ns_name, Zero4)],
    [type |-> HSK_DELEGATE, target |-> Target(HSK_GLUE, ns_name, Addr4)],
    [Decoded(<<9, 2, 110, 115, 0>>)
       EXCEPT !.target = Target(HSK_GLUE, ns_name, Addr4)],
    [Decoded(<<9, 2, 110, 115, 0>>)
       EXCEPT !.target = Target(HSK_INET4, << >>, Addr4)],
    Service(<<83, 77, 84, 80, 46>>,                    \* "SMTP."
            Target(HSK_GLUE, ns_name, Addr4)) }

\* SERVICE records: "SMTP." and "smtp." over "tcp.", "http." over "tcp.",
\* "smtp." over "udp.", and "smtp." over "tcp." with an onion target, which
\* has no host name, and with an address for a target; each with a priority
\* of its own.
Http == <<104, 116, 116, 112, 46>>
Udp == <<117, 100, 112, 46>>

ServiceCatalogue ==
  { Service(<<83, 77, 84, 80, 46>>, Target(HSK_GLUE, ns_name, Addr4)),
    [Service(Smtp, Target(HSK_NAME, ns_name, Zero4)) EXCEPT !.priority = 20],
    [Service(Http, Target(HSK_NAME, ns_name, Zero4)) EXCEPT !.priority = 5],
    [Service(Smtp, Target(HSK_NAME, ns_name, Zero4))
       EXCEPT !.protocol = Udp, !.priority = 7],
    [Service(Smtp, Target(HSK_ONION, << >>, Zero4)) EXCEPT !.priority = 9],
    [Service(Smtp, Target(HSK_INET4, << >>, Addr4)) EXCEPT !.priority = 3] }

ServiceResources ==
  {[version |-> 0, ttl |-> HSK_DEFAULT_TTL, record_count |-> Len(recs),
    records |-> recs] : recs \in SeqsUpTo(ServiceCatalogue, MaxRecs)}

\* Records of the header's other types, one of each type a builder reads:
\* addresses, a location, an SSH fingerprint, a URL "u", a magnet link, a
\* payment address and an e-mail address "me".
HeaderCatalogue ==
  { [type |-> HSK_INET4, target |-> Target(HSK_INET4, << >>, Addr4)],
    [type |-> HSK_INET6,
     target |-> [Target(HSK_INET6, << >>, Zero4)
                   EXCEPT !.inet6 = <<32, 1>> \o Rep(0, 14)]],
    [type |-> HSK_LOCATION, version |-> 0, size |-> 18, horiz_pre |-> 22,
     vert_pre |-> 19, latitude |-> 1, longitude |-> 2, altitude |-> 3],
    [type |-> HSK_SSH, algorithm |-> 1, digest_type |-> 1,
     fingerprint_len |-> 2, fingerprint |-> <<171, 205>>],
    [type |-> HSK_URI, text |-> <<117>>],
    [type |-> HSK_MAGNET, nid |-> <<98, 116, 46>>, nin_len |-> 1,
     nin |-> <<171>>],
    [type |-> HSK_ADDR, currency |-> <<98, 116, 99, 46>>,
     address |-> <<97>>, ctype |-> 0, hash_len |-> 0, hash |-> << >>],
    [type |-> HSK_EMAIL, text |-> <<109, 101>>] }

HeaderResources ==
  {[version |-> 0, ttl |-> HSK_DEFAULT_TTL, record_count |-> Len(recs),
    records |-> recs] : recs \in SeqsUpTo(HeaderCatalogue, MaxRecs)}

\* CANONICAL and DELEGATE records whose target is an address or an onion
\* service, which has no host name, and a TEXT record beside them.
TargetCatalogue ==
  { [type |-> HSK_CANONICAL, target |-> Target(HSK_INET4, << >>, Addr4)],
    [type |-> HSK_CANONICAL, target |-> Target(HSK_ONION, << >>, Zero4)],
    [type |-> HSK_DELEGATE, target |-> Target(HSK_INET4, << >>, Addr4)],
    Decoded(<<13, 2, 104, 105>>) }

TargetResources ==
  {[version |-> 0, ttl |-> HSK_DEFAULT_TTL, record_count |-> Len(recs),
    records |-> recs] : recs \in SeqsUpTo(TargetCatalogue, MaxRecs)}

Resources ==
  {[version |-> 0, ttl |-> HSK_DEFAULT_TTL, record_count |-> Len(recs),
    records |-> recs] : recs \in SeqsUpTo(Catalogue, MaxRecs)}

\* ".", "alice." and "sub.alice."
Names == {<<DOT>>, alice, <<115, 117, 98, 46>> \o alice}

\* The types the dispatcher has a case for, and one it has none for.
QTypes == {HSK_DNS_A, HSK_DNS_AAAA, HSK_DNS_CNAME, HSK_DNS_DNAME, HSK_DNS_NS,
           HSK_DNS_MX, HSK_DNS_TXT, HSK_DNS_LOC, HSK_DNS_DS, HSK_DNS_SSHFP,
           HSK_DNS_URI, HSK_DNS_RP, HSK_DNS_SRV}

\* The queries put to to_dns: every name and type for the resources of the
\* catalogue, MX and SRV for "alice." for the resources of SERVICE records,
\* for the resources of the header's other records the types they answer,
\* and for the resources of records with a target that has no host name the
\* types A, CNAME, DNAME and TXT for "alice." and "sub.alice.".
Queries ==
  {[rs |-> rs, name |-> name, type |-> type] :
     rs \in Resources, name \in Names, type \in QTypes}
  \cup {[rs |-> rs, name |-> alice, type |-> type] :
          rs \in ServiceResources, type \in {HSK_DNS_MX, HSK_DNS_SRV}}
  \cup {[rs |-> rs, name |-> alice, type |-> type] :
          rs \in HeaderResources,
          type \in {HSK_DNS_A, HSK_DNS_AAAA, HSK_DNS_LOC, HSK_DNS_SSHFP,
                    HSK_DNS_URI, HSK_DNS_RP}}
  \cup {[rs |-> rs, name |-> name, type |-> type] :
          rs \in TargetResources, name \in Names \ {<<DOT>>},
          type \in {HSK_DNS_A, HSK_DNS_CNAME, HSK_DNS_DNAME, HSK_DNS_TXT}}

\* The hour hsk_ymdh reads off the clock.
Clock == [year |-> 2026, month |-> 11, day |-> 4, hour |-> 8]

\* The builds and what follows a SYNTH4 address in memory.
Builds ==
  {[wordsize |-> 4, tail |-> Rep(0, 12), now |-> Clock],
   [wordsize |-> 8, tail |-> Rep(0, 12), now |-> Clock],
   [wordsize |-> 8, tail |-> Rep(170, 12), now |-> Clock]}

(***************************************************************************)
(* Actions.                                                                *)
(***************************************************************************)
\* ip_to_b32 of an IPv4 address, then b32_to_ip of the label.
Codec4 ==
  /\ op = "idle"
  /\ \E a \in IPv4s, tail \in Tails, ws \in WordSizes :
       LET b32 == ip_to_b32(a \o tail, ws)
       IN /\ op' = "codec4"
          /\ arg' = [ip |-> a, tail |-> tail, wordsize |-> ws]
          /\ ret' = [b32 |-> b32, back |-> b32_to_ip(b32, TRUE, 0)]

\* ip_to_b32 of an IPv6 address, then b32_to_ip of the label.
Codec6 ==
  /\ op = "idle"
  /\ \E v \in IPv6s, ws \in WordSizes :
       LET b32 == ip_to_b32(v, ws)
       IN /\ op' = "codec6"
          /\ arg' = [ip |-> v, wordsize |-> ws]
          /\ ret' = [b32 |-> b32, back |-> b32_to_ip(b32, TRUE, 0)]

\* ip_write packs a 16-byte address; size is what its call of ip_size gave.
IpWrite ==
  /\ op = "idle"
  /\ \E ip \in Patterns :
       /\ op' = "ip_write"
       /\ arg' = [ip |-> ip]
       /\ ret' = [size |-> ip_size(ip), data |-> ip_write(ip)]

IsPtr ==
  /\ op = "idle"
  /\ \E label \in PtrLabels, rest \in {<< >>, alice} :
       LET name == label \o <<DOT>> \o rest
       IN /\ op' = "is_ptr"
          /\ arg' = [name |-> name]
          /\ ret' = [is_ptr |-> hsk_resource_is_ptr(name)]

\* hsk_resource_decode is called on an input and runs up to its record loop.
DecodeEnter(data) ==
  LET st == decode_enter(data)
  IN /\ op' = IF st.done THEN "decode" ELSE "decoding"
     /\ arg' = [data |-> data]
     /\ ret' = st @@ [crashed |-> FALSE]

Decode ==
  /\ op = "idle"
  /\ \E data \in DecodeInputs : DecodeEnter(data)

DecodeMany ==
  /\ op = "idle"
  /\ \E block \in FloodBlocks, n \in FloodCounts, last \in FloodEnds :
       DecodeEnter(<<0>> \o [k \in 1..(n * Len(block)) |->
                               block[((k - 1) % Len(block)) + 1]] \o last)

\* The record loop of hsk_resource_decode: one record, or the return.  A
\* store past the last slot of records[] overwrites what follows the
\* container on the heap: the build may run on, or crash there.
DecodeStep ==
  /\ op = "decoding"
  /\ \E crashed \in BOOLEAN :
       LET st == decode_step(arg.data, ret)
       IN /\ crashed => st.written > RecordSlots
          /\ op' = IF st.done \/ crashed THEN "decode" ELSE "decoding"
          /\ ret' = [st EXCEPT !.crashed = crashed]
          /\ UNCHANGED arg

\* hsk_resource_str_read of a size byte and a string.
StrRead ==
  /\ op = "idle"
  /\ \E text \in Texts, more \in {0, 1} :
       LET data == <<Len(text) + more>> \o text
       IN /\ op' = "str_read"
          /\ arg' = [data |-> data]
          /\ ret' = hsk_resource_str_read(data, 0, 255)

\* hsk_resource_to_dns with an allocator that grants every request.
ToDns ==
  /\ op = "idle"
  /\ \E q \in Queries, env \in Builds :
       /\ op' = "to_dns"
       /\ arg' = [rs |-> q.rs, name |-> q.name, type |-> q.type, env |-> env,
                  heap |-> NoFault]
       /\ ret' = hsk_resource_to_dns(q.rs, q.name, q.type, env, NoFault)

\* hsk_resource_to_srv, the builder of SRV RRs, on a section.
ToSrv ==
  /\ op = "idle"
  /\ \E rs \in ServiceResources, service \in {Smtp, Http}, env \in Builds :
       /\ op' = "to_srv"
       /\ arg' = [rs |-> rs, name |-> alice, protocol |-> Tcp,
                  service |-> service, env |-> env]
       /\ ret' = hsk_resource_to_srv(rs, alice, Tcp, service, << >>, env,
                                     NoFault)

\* Resources as the decoder delivers them: records of the types it reads.
DecodedResources ==
  {rs \in Resources :
     \A i \in 1..rs.record_count :
       rs.records[i].type \in {HSK_DS, HSK_NS, HSK_GLUE4, HSK_SYNTH4, HSK_TEXT}
       /\ (rs.records[i].type = HSK_NS => rs.records[i].target = ZeroTarget)}

\* Query types for the root: the five it has a case for, and others.
RootTypes == {HSK_DNS_ANY, HSK_DNS_NS, HSK_DNS_SOA, HSK_DNS_DNSKEY,
              HSK_DNS_DS, HSK_DNS_A, HSK_DNS_TXT, HSK_DNS_NSEC}

\* The server's own address: 192.0.2.1 or 2001::.
OwnAddrs == {[family |-> 4, ip |-> Addr4],
             [family |-> 6, ip |-> <<32, 1>> \o Rep(0, 14)]}

\* The hours hsk_ymdh reads off the clock.
Hours == {[Clock EXCEPT !.hour = h] : h \in 8..(8 + MaxFuel)}

Root ==
  /\ op = "idle"
  /\ \E type \in RootTypes, addr \in OwnAddrs, now \in Hours :
       /\ op' = "root"
       /\ arg' = [type |-> type, addr |-> addr, now |-> now]
       /\ ret' = hsk_resource_root(type, addr, now, NoFault)

ToNx ==
  /\ op = "idle"
  /\ \E now \in Hours :
       /\ op' = "to_nx"
       /\ arg' = [now |-> now]
       /\ ret' = hsk_resource_to_nx(now, NoFault)

ToServfail ==
  /\ op = "idle"
  /\ op' = "to_servfail"
  /\ arg' = NULL
  /\ ret' = hsk_resource_to_servfail(NoFault)

ToNotimp ==
  /\ op = "idle"
  /\ op' = "to_notimp"
  /\ arg' = NULL
  /\ ret' = hsk_resource_to_notimp(NoFault)

Init ==
  /\ op = "idle"
  /\ arg = NULL
  /\ ret = NULL

\* The caller is done with the result and drops it.
Done ==
  /\ op \notin {"idle", "decoding"}
  /\ op' = "idle"
  /\ arg' = NULL
  /\ ret' = NULL

Next ==
  \/ Done
  \/ Decode
  \/ DecodeMany
  \/ DecodeStep
  \/ StrRead
  \/ Codec4
  \/ Codec6
  \/ IpWrite
  \/ IsPtr
  \/ ToDns
  \/ ToSrv
  \/ Root
  \/ ToNx
  \/ ToServfail
  \/ ToNotimp

Spec == Init /\ [][Next]_vars

\* The same call with an allocator that is exhausted after at most MaxFuel
\* requests.
ToDnsOOM ==
  /\ op = "idle"
  /\ \E rs \in Resources, name \in Names, type \in QTypes,
        left \in 0..MaxFuel :
       LET env == [wordsize |-> 8, tail |-> Rep(0, 12), now |-> Clock]
           heap == [limited |-> TRUE, left |-> left]
       IN /\ op' = "to_dns"
          /\ arg' = [rs |-> rs, name |-> name, type |-> type, env |-> env,
                     heap |-> heap]
          /\ ret' = hsk_resource_to_dns(rs, name, type, env, heap)

InitOOM ==
  /\ op = "idle"
  /\ arg = NULL
  /\ ret = NULL

NextOOM ==
  \/ Done
  \/ ToDnsOOM

\* The translation under allocation failure.
SpecOOM == InitOOM /\ [][NextOOM]_vars

\* The decoder alone.  hsk_resource_decode is sequential code: once called,
\* its record loop goes on until it returns, so the step is weakly fair.
InitDecode ==
  /\ op = "idle"
  /\ arg = NULL
  /\ ret = NULL

NextDecode ==
  \/ Done
  \/ Decode
  \/ DecodeMany
  \/ DecodeStep

SpecDecode == InitDecode /\ [][NextDecode]_vars /\ WF_vars(DecodeStep)

\* hsk_resource_to_dns twice on one resource with one name and type.  The
\* clock may have gone on to the next hour in between, and the 12 bytes a
\* build with 8-byte pointers reads past the 4 address bytes of a SYNTH4
\* record may have been written to.
ToDnsTwice ==
  /\ op = "idle"
  /\ \E rs \in DecodedResources, name \in Names, type \in QTypes,
        ws \in WordSizes, tail \in {Rep(0, 12), Rep(170, 12)},
        hour \in {Clock.hour, Clock.hour + 1} :
       LET env1 == [wordsize |-> ws, tail |-> Rep(0, 12), now |-> Clock]
           env2 == [wordsize |-> ws, tail |-> tail,
                    now |-> [Clock EXCEPT !.hour = hour]]
           msgs == [k \in 1..2 |->
                      hsk_resource_to_dns(rs, name, type,
                                          IF k = 1 THEN env1 ELSE env2,
                                          NoFault)]
       IN /\ op' = "to_dns_twice"
          /\ arg' = [rs |-> rs, name |-> name, type |-> type,
                     envs |-> <<env1, env2>>]
          /\ ret' = [first |-> msgs[1], second |-> msgs[2], rs |-> rs]

InitTwice ==
  /\ op = "idle"
  /\ arg = NULL
  /\ ret = NULL

NextTwice ==
  \/ Done
  \/ ToDnsTwice

\* The translation called twice.
SpecTwice == InitTwice /\ [][NextTwice]_vars

(***************************************************************************)
(* Properties.                                                             *)
(***************************************************************************)
Range(s) == {s[i] : i \in 1..Len(s)}

\* to_dns returned a message.
Returned == op = "to_dns" /\ ret # NULL

\* The records of a resource that count as name servers.
NsLike(rs) == SelectSeq(rs.records, LAMBDA c : c.type \in NsRange)

\* The RRs of a type in a section.
OfType(rrs, type) == SelectSeq(rrs, LAMBDA rr : rr.type = type)

\* C1: whenever the message to_dns returns has a non-empty answer section,
\* its AA flag is set, on the single-label path and on the multi-label path
\* where a DELEGATE record puts a DNAME RR into the answer.
C1_AnswerImpliesAA ==
  (Returned /\ ret.an # << >>) => HSK_DNS_AA \in ret.flags

\* C2: for a name of more than one label and a resource with an NS-like
\* record, to_dns returns a message with an empty answer section and a
\* non-empty authority section holding one NS RR per NS-like record.
C2_ReferralTrigger ==
  (/\ op = "to_dns"
   /\ hsk_dns_label_count(arg.name) > 1
   /\ NsLike(arg.rs) # << >>)
  => /\ ret # NULL
     /\ ret.an = << >>
     /\ ret.ns # << >>
     /\ Len(OfType(ret.ns, HSK_DNS_NS)) = Len(NsLike(arg.rs))

\* A referral for a resource with two NS-like records, a GLUE4 and a SYNTH4,
\* and the two NS RRs in its authority section.
C2_Witness ==
  /\ Returned
  /\ hsk_dns_label_count(arg.name) > 1
  /\ {c.type : c \in Range(arg.rs.records)} = {HSK_GLUE4, HSK_SYNTH4}
  /\ Len(OfType(ret.ns, HSK_DNS_NS)) = 2

\* C3: decode returns false for every input in which the reader of some
\* record failed; a decode that succeeds read every record body completely.
C3_RejectsOnReaderFailure ==
  (op = "decode" /\ FALSE \in Range(ret.results)) => ~ret.ok

\* C4: decode writes no slot past the last of records[] and delivers no
\* resource of more than 255 records; an input of more records is rejected.
C4_AtMost255Records ==
  op \in {"decoding", "decode"}
  => /\ ret.written <= RecordSlots
     /\ ret.crashed = FALSE
     /\ ret.ok => ret.res.record_count <= RecordSlots

\* The bytes a text field may hold: 0x20..0x7e, TAB, LF and CR.
Printable(ch) == (32 <= ch /\ ch <= 126) \/ ch \in {9, 10, 13}

\* C5: every text of a decoded resource is made of printable ASCII, TAB, LF
\* and CR only, and hsk_resource_str_read fails on a string with any other
\* byte in it.
C5_TextIsPrintable ==
  /\ (op = "decode" /\ ret.ok)
     => \A c \in Range(ret.res.records) :
          c.type = HSK_TEXT => \A ch \in Range(c.text) : Printable(ch)
  /\ (/\ op = "str_read"
      /\ arg.data[1] <= Len(arg.data) - 1
      /\ \E k \in 1..arg.data[1] : ~Printable(arg.data[1 + k]))
     => ~ret.ok

\* An IPv4-mapped IPv6 address.
IsMapped(v) == SubSeq(v, 1, 12) = MappedPrefix

\* C6: b32_to_ip of the label ip_to_b32 makes of an IPv4 address gives family
\* A and the same 4 bytes, and of an IPv6 address that is not IPv4-mapped
\* family AAAA and the same 16 bytes.
C6_CodecRoundTrip ==
  /\ op = "codec4"
     => ret.back = [ok |-> TRUE, ip |-> arg.ip, family |-> HSK_DNS_A]
  /\ (op = "codec6" /\ ~IsMapped(arg.ip))
     => ret.back = [ok |-> TRUE, ip |-> arg.ip, family |-> HSK_DNS_AAAA]

\* C7: when a builder called by to_dns returns false, an allocation having
\* failed in it, to_dns returns NULL; a message it returns lacks no RR for
\* want of memory.
C7_NullOnAllocationFailure ==
  Returned => \A r \in Range(ret.rets) : r.ok

\* C8: a decode that fails delivers no resource and leaves none of the
\* records it allocated allocated.
C8_FailedDecodeFreesAll ==
  (op = "decode" /\ ret.done /\ ~ret.ok)
  => /\ ret.res = NULL
     /\ ret.live = << >>

\* The types the single-label path has a case for.
AuthoritativeTypes == QTypes \ {HSK_DNS_SRV}

\* A section is signed: it holds an RRSIG over the type of an RR in it.
Signed(rrs) ==
  \E sig \in Range(rrs) :
    /\ sig.type = HSK_DNS_RRSIG
    /\ \E rr \in Range(rrs) :
         rr.type # HSK_DNS_RRSIG /\ sig.rd.type_covered = rr.type

\* The message is the work of the switch alone: the builders called are the
\* ones of the case of the query type, the fallback called none.
SwitchAlone ==
  Len(ret.rets) = Len(SelectSeq(SwitchCalls(arg.name, arg.type),
                                LAMBDA c : c.fn # "sign_zsk"))

\* C9: for a single-label name and a query type the switch has a case for,
\* every section of the message returned that the builders of that case
\* left non-empty, the additional section with its glue and NSIP addresses
\* included, is signed with the zone signing key.
C9_NonEmptySectionsSigned ==
  (/\ Returned
   /\ hsk_dns_label_count(arg.name) = 1
   /\ arg.type \in AuthoritativeTypes
   /\ SwitchAlone)
  => \A sec \in {"an", "ns", "ar"} : ret[sec] # << >> => Signed(ret[sec])

\* A label that is a packed address behind a '_': base32-hex of 1 to 17
\* bytes, a header byte (start << 4) | len with start + len <= 16, and
\* exactly 16 - len address bytes after it.
IsPackedAddress(label) ==
  /\ Len(label) >= 2
  /\ label[1] = UNDERSCORE
  /\ \A k \in 2..Len(label) : IsB32(label[k])
  /\ LET bytes == hsk_base32_decode_hex(SubSeq(label, 2, Len(label)))
     IN /\ Len(bytes) >= 1
        /\ Len(bytes) <= 17
        /\ (bytes[1] \div 16) + (bytes[1] % 16) <= 16
        /\ Len(bytes) = 1 + 16 - (bytes[1] % 16)

\* C10: hsk_resource_is_ptr is true of a name exactly when its first label
\* is a packed address behind a '_'; a label whose decoded byte count does
\* not match its header byte is no pointer.
C10_IsPtrExact ==
  op = "is_ptr"
  => (ret.is_ptr <=> IsPackedAddress(hsk_dns_label_get(arg.name, 0)))

\* The RRSIG RRs of a section, by the type they cover.
Covers(rrs) ==
  [k \in 1..Len(OfType(rrs, HSK_DNS_RRSIG)) |->
     OfType(rrs, HSK_DNS_RRSIG)[k].rd.type_covered]

\* A root NSEC: owner ".", next ".", the fixed bitmap of 9 bytes.
IsRootNsec(rr) ==
  /\ rr.type = HSK_DNS_NSEC
  /\ rr.name = <<DOT>>
  /\ rr.rd.next_domain = <<DOT>>
  /\ rr.rd.type_map = hsk_type_map
  /\ rr.rd.type_map_len = 9

\* C11: for a root query whose type is none of NS, ANY, SOA, DNSKEY, DS the
\* message of hsk_resource_root has an empty answer and an authority section
\* of two root NSEC RRs, then the root SOA, the NSEC and the SOA RRset each
\* signed with the zone signing key.
C11_RootEmptyProof ==
  (op = "root" /\ ret # NULL
   /\ arg.type \notin {HSK_DNS_NS, HSK_DNS_ANY, HSK_DNS_SOA, HSK_DNS_DNSKEY,
                       HSK_DNS_DS})
  => /\ ret.an = << >>
     /\ Len(OfType(ret.ns, HSK_DNS_NSEC)) = 2
     /\ \A rr \in Range(OfType(ret.ns, HSK_DNS_NSEC)) : IsRootNsec(rr)
     /\ Len(OfType(ret.ns, HSK_DNS_SOA)) = 1
     /\ Covers(ret.ns) = <<HSK_DNS_NSEC, HSK_DNS_SOA>>

\* A section with the serial of its SOA RRs left out of account.
Unserial(rrs) ==
  [k \in 1..Len(rrs) |->
     IF rrs[k].type = HSK_DNS_SOA THEN [rrs[k] EXCEPT !.rd.serial = 0]
     ELSE rrs[k]]

\* C12: two calls of to_dns on one decoded resource with one name and type
\* give messages whose answer, authority and additional sections are equal
\* RR by RR, but for the SOA serial when the hour of the clock differs, and
\* the resource is after the first call what it was before.
C12_Deterministic ==
  op = "to_dns_twice"
  => /\ ret.rs = arg.rs
     /\ (ret.first = NULL) = (ret.second = NULL)
     /\ ret.first # NULL =>
          \A sec \in {"an", "ns", "ar"} :
            IF arg.envs[1].now = arg.envs[2].now
            THEN ret.first[sec] = ret.second[sec]
            ELSE Unserial(ret.first[sec]) = Unserial(ret.second[sec])

\* C13: in every message to_dns returns, an empty answer section together
\* with a non-empty authority section (a referral, an empty proof) comes
\* with the AA flag clear.
C13_ReferralNotAuthoritative ==
  (Returned /\ ret.an = << >> /\ ret.ns # << >>)
  => HSK_DNS_AA \notin ret.flags

\* A single-label query answered by a referral: NS RRs in the authority
\* section, nothing in the answer.
C13_Witness ==
  /\ Returned
  /\ hsk_dns_label_count(arg.name) = 1
  /\ ret.an = << >>
  /\ OfType(ret.ns, HSK_DNS_NS) # << >>
  /\ HSK_DNS_AA \notin ret.flags

\* C14: decode returns true only for an input whose first byte is 0x00: the
\* empty input and every input with another version byte are rejected, and
\* every resource it delivers has version 0 and the TTL HSK_DEFAULT_TTL.
C14_VersionZeroOnly ==
  (op = "decode" /\ ret.done)
  => /\ (arg.data = << >> \/ arg.data[1] # 0) => ~ret.ok /\ ret.res = NULL
     /\ ret.ok => /\ ret.res.version = 0
                  /\ ret.res.ttl = HSK_DEFAULT_TTL

\* An input with version byte 1 and a well-formed record after it, rejected.
C14_Witness ==
  /\ op = "decode"
  /\ ret.done
  /\ Len(arg.data) > 1
  /\ arg.data[1] = 1
  /\ ~ret.ok

\* The decode is at a record boundary and the tag there has no reader.
AtUnknownTag ==
  /\ op = "decoding"
  /\ Avail(arg.data, ret.pos) > 0
  /\ hsk_record_alloc(arg.data[ret.pos + 1]) = NULL

\* C15: a type tag at a record boundary that decode has no reader for makes
\* hsk_resource_decode return false, whatever the records before it and the
\* bytes after it.
C15_UnknownTypeRejects ==
  [][AtUnknownTag =>
       (op' = "decode" /\ ret'.done /\ ~ret'.ok /\ ~ret'.crashed)]_vars

\* The records of a type in a resource.
RecordsOf(rs, type) == SelectSeq(rs.records, LAMBDA c : c.type = type)

\* The types of the RRs of a section, in order.
TypesOf(rrs) == [k \in 1..Len(rrs) |-> rrs[k].type]

\* C16: on the referral path (a name of more than one label, a resource with
\* an NS-like record) the authority section is the NS RRs, then the DS RRs,
\* then one RRSIG: over NS when the resource has no DS record, over DS (and
\* none over NS) when it has one; the answer is empty and AA clear.
C16_ReferralSignedOnce ==
  (op = "to_dns" /\ hsk_dns_label_count(arg.name) > 1
   /\ NsLike(arg.rs) # << >>)
  => /\ ret # NULL
     /\ ret.an = << >>
     /\ HSK_DNS_AA \notin ret.flags
     /\ TypesOf(ret.ns) =
          [k \in 1..Len(NsLike(arg.rs)) |-> HSK_DNS_NS]
          \o [k \in 1..Len(RecordsOf(arg.rs, HSK_DS)) |-> HSK_DNS_DS]
          \o <<HSK_DNS_RRSIG>>
     /\ Covers(ret.ns) = IF RecordsOf(arg.rs, HSK_DS) = << >>
                         THEN <<HSK_DNS_NS>> ELSE <<HSK_DNS_DS>>

\* A referral for a resource with an NS and a DS record: NS, DS, and the
\* RRSIG over DS.
C16_Witness ==
  /\ Returned
  /\ hsk_dns_label_count(arg.name) > 1
  /\ TypesOf(ret.ns) = <<HSK_DNS_NS, HSK_DNS_DS, HSK_DNS_RRSIG>>
  /\ Covers(ret.ns) = <<HSK_DNS_DS>>

\* The empty proof for a name: the NSEC of the name with next domain "." and
\* no type bitmap, the root SOA, each followed by its RRSIG.
IsEmptyProof(ns, name) ==
  /\ TypesOf(ns) = <<HSK_DNS_NSEC, HSK_DNS_RRSIG, HSK_DNS_SOA, HSK_DNS_RRSIG>>
  /\ ns[1].name = name
  /\ ns[1].rd.next_domain = <<DOT>>
  /\ ns[1].rd.type_map = NULL
  /\ ns[1].rd.type_map_len = 0
  /\ ns[3].name = <<DOT>>
  /\ ns[3].rd.ns = <<DOT>>
  /\ ns[3].rd.mbox = <<DOT>>
  /\ Covers(ns) = <<HSK_DNS_NSEC, HSK_DNS_SOA>>

\* C17: for a name of one label, when the switch on the query type leaves
\* the answer and the authority section empty and the resource has neither a
\* CANONICAL nor an NS record (the empty resource with any query type is
\* such a case), to_dns returns a message with an empty answer, AA clear and
\* the empty proof for the name as its authority section.
C17_EmptyProof ==
  (op = "to_dns" /\ hsk_dns_label_count(arg.name) = 1
   /\ RecordsOf(arg.rs, HSK_CANONICAL) = << >>
   /\ RecordsOf(arg.rs, HSK_NS) = << >>
   /\ \/ arg.rs.record_count = 0
      \/ ret # NULL /\ ret.at_switch = [an |-> 0, ns |-> 0])
  => /\ ret # NULL
     /\ ret.an = << >>
     /\ HSK_DNS_AA \notin ret.flags
     /\ IsEmptyProof(ret.ns, arg.name)

\* The empty proof for a resource that has records, none of the type asked
\* for.
C17_Witness ==
  /\ Returned
  /\ hsk_dns_label_count(arg.name) = 1
  /\ arg.rs.record_count > 0
  /\ ret.an = << >>
  /\ IsEmptyProof(ret.ns, arg.name)

\* C18: hsk_resource_to_nx returns a message with rcode NXDOMAIN, AA set, an
\* empty answer and additional section, and as its authority section two
\* root NSEC RRs, an RRSIG over NSEC, the root SOA and an RRSIG over SOA, in
\* that order; hsk_resource_to_servfail and hsk_resource_to_notimp return
\* messages with rcode SERVFAIL and NOTIMP and no record in any section.
C18_FixedMessages ==
  /\ op = "to_nx" =>
       /\ ret # NULL
       /\ ret.code = HSK_DNS_NXDOMAIN
       /\ HSK_DNS_AA \in ret.flags
       /\ ret.an = << >>
       /\ ret.ar = << >>
       /\ TypesOf(ret.ns) = <<HSK_DNS_NSEC, HSK_DNS_NSEC, HSK_DNS_RRSIG,
                              HSK_DNS_SOA, HSK_DNS_RRSIG>>
       /\ IsRootNsec(ret.ns[1])
       /\ IsRootNsec(ret.ns[2])
       /\ ret.ns[4].name = <<DOT>>
       /\ Covers(ret.ns) = <<HSK_DNS_NSEC, HSK_DNS_SOA>>
  /\ op \in {"to_servfail", "to_notimp"} =>
       /\ ret # NULL
       /\ ret.code = IF op = "to_servfail" THEN HSK_DNS_SERVFAIL
                     ELSE HSK_DNS_NOTIMP
       /\ ret.an = << >>
       /\ ret.ns = << >>
       /\ ret.ar = << >>

\* hsk_resource_to_nx has returned its message.
C18_Witness ==
  /\ op = "to_nx"
  /\ ret # NULL
  /\ Len(ret.ns) = 5

\* The RRs of a message that are not signatures.
Unsigned(msg) ==
  {rr \in Range(msg.an) \cup Range(msg.ns) \cup Range(msg.ar) :
     rr.type # HSK_DNS_RRSIG}

\* C19: the TTL of a resource is the one decode gave it, HSK_DEFAULT_TTL, and
\* every RR a builder makes from a resource carries it: in a message of
\* to_dns every RR but the NSEC of the empty proof and the root SOA, which
\* carry 86400, and every SRV RR of hsk_resource_to_srv.  The NS, A and AAAA
\* RRs hsk_resource_root makes for the root carry 518400.  (The RRSIG RRs
\* are the signer's and left out of account.)
C19_TtlInvariant ==
  /\ (op = "decode" /\ ret.ok) => ret.res.ttl = HSK_DEFAULT_TTL
  /\ Returned =>
       /\ arg.rs.ttl = HSK_DEFAULT_TTL
       /\ \A rr \in Unsigned(ret) :
            rr.ttl = IF rr.type \in {HSK_DNS_NSEC, HSK_DNS_SOA} THEN 86400
                     ELSE arg.rs.ttl
  /\ op = "to_srv" => \A rr \in Range(ret.rrs) : rr.ttl = arg.rs.ttl
  /\ (op = "root" /\ ret # NULL) =>
       \A rr \in Unsigned(ret) :
         rr.type \in {HSK_DNS_NS, HSK_DNS_A, HSK_DNS_AAAA} => rr.ttl = 518400

\* A message of to_dns with a URI RR for each of a URL and a magnet record
\* in its answer, both with the TTL of the resource.
C19_Witness ==
  /\ Returned
  /\ Len(OfType(ret.an, HSK_DNS_URI)) = 2
  /\ \A rr \in Range(OfType(ret.an, HSK_DNS_URI)) : rr.ttl = HSK_DEFAULT_TTL

\* The SERVICE records of a resource that an MX query is about: service
\* "smtp." and protocol "tcp." up to the case of the letters, and a target
\* that has a host name, its own or one made of its address.
MailRecords(rs) ==
  SelectSeq(rs.records, LAMBDA c :
    /\ c.type = HSK_SERVICE
    /\ hsk_to_lower(c.service) = Smtp
    /\ hsk_to_lower(c.protocol) = Tcp
    /\ c.target.type \in {HSK_NAME, HSK_GLUE, HSK_INET4, HSK_INET6})

\* C20: for an MX query on a name of one label the answer holds one MX RR
\* for each SERVICE record whose service is "smtp." and whose protocol is
\* "tcp.", compared without regard to case, and whose target resolves to a
\* host, in the order of the records, with the record's priority as its
\* preference and the queried name as its owner; other SERVICE records
\* contribute none.
C20_MxFilter ==
  (Returned /\ arg.type = HSK_DNS_MX /\ hsk_dns_label_count(arg.name) = 1)
  => [k \in 1..Len(OfType(ret.an, HSK_DNS_MX)) |->
        [name |-> OfType(ret.an, HSK_DNS_MX)[k].name,
         preference |-> OfType(ret.an, HSK_DNS_MX)[k].rd.preference]]
     = [k \in 1..Len(MailRecords(arg.rs)) |->
          [name |-> arg.name,
           preference |-> MailRecords(arg.rs)[k].priority]]

\* An MX query on a resource with an "SMTP." record and an "http." record:
\* one MX RR, for the first.
C20_Witness ==
  /\ Returned
  /\ arg.type = HSK_DNS_MX
  /\ arg.rs.record_count = 2
  /\ \A i \in 1..2 : arg.rs.records[i].type = HSK_SERVICE
  /\ arg.rs.records[1].service = <<83, 77, 84, 80, 46>>
  /\ arg.rs.records[2].service = Http
  /\ Len(OfType(ret.an, HSK_DNS_MX)) = 1
  /\ ret.an[1].rd.preference = 10

\* Bytes a+1 .. a+n of the address (a counted from 0) are all zero.
ZeroRun(ip, a, n) == a + n <= 16 /\ \A k \in (a + 1)..(a + n) : ip[k] = 0

\* C21: ip_size gives the first of the longest runs of zero bytes of the
\* address, and (0, 0) for the all-zero address; start < 16, len < 16 and
\* start + len <= 16, the conditions of its three asserts, hold; the header
\* byte of ip_write holds start and len, and ip_write emits 1 + (16 - len)
\* bytes, at most 17.
C21_ZeroRunSelection ==
  op = "ip_write" =>
    LET ip == arg.ip
        start == ret.size.start
        len == ret.size.len
    IN /\ start < 16
       /\ len < 16
       /\ start + len <= 16
       /\ IF \A k \in 1..16 : ip[k] = 0
          THEN start = 0 /\ len = 0
          ELSE /\ ZeroRun(ip, start, len)
               /\ \A a \in 0..15, n \in 1..16 :
                    ZeroRun(ip, a, n) => n <= len /\ (n = len => a >= start)
       /\ ret.data[1] \div 16 = start
       /\ ret.data[1] % 16 = len
       /\ Len(ret.data) = 1 + (16 - len)
       /\ Len(ret.data) <= 17

\* An address with two longest runs of zero bytes, the first not at byte 0.
C21_Witness ==
  /\ op = "ip_write"
  /\ ret.size.start > 0
  /\ ret.size.len = 3
  /\ \E a \in 0..15 : a > ret.size.start /\ ZeroRun(arg.ip, a, 3)
  /\ \E k \in 1..16 : arg.ip[k] = 0 /\ ~ZeroRun(arg.ip, k - 1, 2)

\* C22: for every resource, name of at least one label and query type, the
\* message to_dns returns has an RR in its answer or in its authority
\* section, also when the only CANONICAL or DELEGATE record of the resource
\* has a target the CNAME or DNAME builder skips.
C22_NeverSaysNothing ==
  (Returned /\ hsk_dns_label_count(arg.name) >= 1)
  => (ret.an # << >> \/ ret.ns # << >>)

\* C23: for a name of one label, when the switch on the query type leaves
\* the answer and the authority section empty and the resource has no
\* CANONICAL record, every resource hsk_resource_has_ns is true of (one whose
\* only NS-like records are GLUE4, GLUE6, SYNTH4 or SYNTH6 included) gets NS
\* RRs in the authority section and no NSEC empty proof.
C23_DelegatedAlike ==
  (Returned /\ hsk_dns_label_count(arg.name) = 1
   /\ ret.at_switch = [an |-> 0, ns |-> 0]
   /\ RecordsOf(arg.rs, HSK_CANONICAL) = << >>
   /\ hsk_resource_has_ns(arg.rs))
  => /\ OfType(ret.ns, HSK_DNS_NS) # << >>
     /\ OfType(ret.ns, HSK_DNS_NSEC) = << >>

\* One step of the record loop: an iteration consumes the type tag at least,
\* the bytes that remain never fall below zero, and no more iterations have
\* run than the input has bytes after the version byte.
LoopProgress ==
  op = "decoding" =>
    /\ ret'.iterations \in {ret.iterations, ret.iterations + 1}
    /\ ret'.iterations = ret.iterations + 1 => ret'.pos >= ret.pos + 1
    /\ ret'.pos <= Len(arg.data)
    /\ ret'.iterations <= Len(arg.data) - 1

\* C24: hsk_resource_decode terminates on every input: each iteration of the
\* record loop consumes the type tag at least, the number of bytes that
\* remain decreases and never underflows, and after at most data_len - 1
\* iterations the call has returned a resource or rejected the input.
C24_DecodeTerminates ==
  /\ [][LoopProgress]_vars
  /\ (op = "decoding") ~> (op = "decode" /\ ret.done /\ ~ret.crashed)

====
